---------------------------- MODULE Spec2Model ----------------------------
(***************************************************************************)
(* Framed transport of gstoney/mcproto: Transport.Send / Transport.Recv,   *)
(* the FrameReader and the two PayloadReader variants (plainPayload,       *)
(* compressedPayload).                                                     *)
(*                                                                         *)
(* The stream is modelled as in the transport tests: one byte buffer is    *)
(* both the sink Send writes to and the source Recv reads from.  `wire`    *)
(* holds the unread part of that buffer (bytes.Buffer semantics: a read    *)
(* removes the bytes it returns).                                          *)
(***************************************************************************)
EXTENDS Integers, Sequences, FiniteSets, TLC

(***************************************************************************)
(* Bounds of the model.                                                    *)
(***************************************************************************)
\* longest payload handed to Send
MaxLen == 2
\* most frames written and not yet taken off the wire by the receiver
MaxInflight == 2

\* byte values a payload is built from
PayloadBytes == {1, 2}
\* values compressionThreshold takes (-1: compression disabled)
Thresholds == {-1, 0, 2}
\* lengths of the buffer the caller passes to Read
BufSizes == {1, 2}
\* configurations a transport is constructed with (TransportConfig)
Configs ==
    { [MaxPacketLen |-> 1, MaxDecompressedLen |-> 1],
      [MaxPacketLen |-> 9, MaxDecompressedLen |-> 1],
      [MaxPacketLen |-> 9, MaxDecompressedLen |-> 2] }

(***************************************************************************)
(* Sequence helpers.                                                       *)
(***************************************************************************)
Min(a, b) == IF a <= b THEN a ELSE b

Take(s, n) == SubSeq(s, 1, Min(n, Len(s)))

Drop(s, n) == SubSeq(s, Min(n, Len(s)) + 1, Len(s))

RECURSIVE SumSeq(_)
SumSeq(s) == IF s = <<>> THEN 0 ELSE Head(s) + SumSeq(Tail(s))

RECURSIVE SeqsUpTo(_, _)
SeqsUpTo(S, n) ==
    IF n = 0 THEN { <<>> }
    ELSE LET shorter == SeqsUpTo(S, n - 1)
         IN  shorter \cup { <<x>> \o s : x \in S, s \in { t \in shorter : Len(t) = n - 1 } }

\* the payloads Send is called with: the empty one and the non-decreasing
\* byte strings that begin with 1, so that one-run and several-run payloads
\* and different payloads of one length occur
Payloads ==
    { s \in SeqsUpTo(PayloadBytes, MaxLen) :
        /\ \A i \in 1..(Len(s) - 1) : s[i] <= s[i + 1]
        /\ s # <<>> => s[1] = 1 }

(***************************************************************************)
(* VarInt codec (packet/fields.go).  int32 arithmetic is kept inside the   *)
(* 32-bit range: 2^31 is never formed.                                     *)
(***************************************************************************)
Pow28 == 128 * 128 * 128 * 128

\* the septets of a non-negative uv, low septet first, continuation bit set
\* on all but the last (the loop of WriteVarInt)
RECURSIVE VarIntLoop(_)
VarIntLoop(uv) ==
    IF uv \div 128 = 0 THEN << uv % 128 >>
    ELSE << 128 + (uv % 128) >> \o VarIntLoop(uv \div 128)

\* variant of WriteVarInt: the continuation bit is set on the first byte
\* also when no septet follows, and an empty septet is written after it
WriteVarIntPadded(v) ==
    IF v >= 0 /\ v < 128 THEN << 128 + v, 0 >>
    ELSE IF v >= 0 THEN VarIntLoop(v)
    ELSE LET w == (v + 4 * Pow28) + 4 * Pow28
         IN  << 128 + (w % 128),
                128 + ((w \div 128) % 128),
                128 + ((w \div (128 * 128)) % 128),
                128 + ((w \div (128 * 128 * 128)) % 128),
                8 + (w \div Pow28) >>

\* WriteVarInt(w, v): uv := uint32(v).  A negative v has bit 31 set, so it
\* always takes five bytes; w is v with bit 31 cleared.
WriteVarInt(v) ==
    IF v >= 0 THEN VarIntLoop(v)
    ELSE LET w == (v + 4 * Pow28) + 4 * Pow28
         IN  << 128 + (w % 128),
                128 + ((w \div 128) % 128),
                128 + ((w \div (128 * 128)) % 128),
                128 + ((w \div (128 * 128 * 128)) % 128),
                8 + (w \div Pow28) >>

\* variant of OrShl: bit 3 of the fifth segment is dropped instead of
\* becoming the sign bit
OrShlUnsigned(v, segment, n) ==
    CASE n = 0 -> v + segment
      [] n = 1 -> v + segment * 128
      [] n = 2 -> v + segment * 128 * 128
      [] n = 3 -> v + segment * 128 * 128 * 128
      [] OTHER -> v + (segment % 8) * Pow28

\* v |= int32(segment) << shift, for the n-th byte read (shift = 7n).  The
\* fifth segment keeps its low four bits; bit 3 of it is the sign bit.
OrShl(v, segment, n) ==
    CASE n = 0 -> v + segment
      [] n = 1 -> v + segment * 128
      [] n = 2 -> v + segment * 128 * 128
      [] n = 3 -> v + segment * 128 * 128 * 128
      [] OTHER -> LET lo == v + (segment % 8) * Pow28
                  IN  IF (segment \div 8) % 2 = 1
                      THEN (lo - 4 * Pow28) - 4 * Pow28
                      ELSE lo

\* variant of ReadVarIntLoop: the loop gives up after four bytes
RECURSIVE ReadVarIntLoopFour(_, _, _)
ReadVarIntLoopFour(s, n, v) ==
    IF n = 4 THEN [v |-> v, n |-> n, err |-> "VarIntTooLong"]
    ELSE IF s = <<>> THEN [v |-> v, n |-> n, err |-> "UnexpectedEOF"]
    ELSE LET b  == Head(s)
             v2 == OrShl(v, b % 128, n)
         IN  IF b < 128 THEN [v |-> v2, n |-> n + 1, err |-> "nil"]
             ELSE ReadVarIntLoopFour(Tail(s), n + 1, v2)

\* ReadVarInt over the bytes s the reader can still deliver: the value, the
\* number of bytes consumed, and the error.
RECURSIVE ReadVarIntLoop(_, _, _)
ReadVarIntLoop(s, n, v) ==
    IF n = 5 THEN [v |-> v, n |-> n, err |-> "VarIntTooLong"]
    ELSE IF s = <<>> THEN [v |-> v, n |-> n, err |-> "UnexpectedEOF"]
    ELSE LET b  == Head(s)
             v2 == OrShl(v, b % 128, n)
         IN  IF b < 128 THEN [v |-> v2, n |-> n + 1, err |-> "nil"]
             ELSE ReadVarIntLoop(Tail(s), n + 1, v2)

ReadVarInt(s) == ReadVarIntLoop(s, 0, 0)

\* ReadVarIntFromReader(io.Reader): the same decoding over a plain byte
\* reader; an end of stream before the first byte stays a plain EOF.
ReadVarIntFromReader(s) ==
    LET r == ReadVarInt(s)
    IN  IF r.n = 0 /\ r.err = "UnexpectedEOF" THEN [r EXCEPT !.err = "EOF"] ELSE r

(***************************************************************************)
(* compress/zlib, abstracted.  A stream is a header byte, the data as      *)
(* run-length pairs <<count, byte>>, an end marker 0 and one checksum      *)
(* byte.  What the transport relies on is kept: the encoding is not the    *)
(* identity, the stream delimits itself, and the reader takes its input    *)
(* from the frame reader byte by byte (FrameReader has ReadByte, so flate  *)
(* adds no read-ahead buffer).                                             *)
(***************************************************************************)
ZlibHeader == << 120 >>

ZlibChecksum(b) == (1 + SumSeq(b)) % 256

RECURSIVE RunLength(_)
RunLength(b) ==
    IF b = <<>> THEN 0
    ELSE IF Len(b) > 1 /\ b[2] = b[1] THEN 1 + RunLength(Tail(b))
    ELSE 1

RECURSIVE ZlibRuns(_)
ZlibRuns(b) ==
    IF b = <<>> THEN <<>>
    ELSE LET k == RunLength(b)
         IN  << k, b[1] >> \o ZlibRuns(Drop(b, k))

\* zlib.Writer: Write(b) then Close()
ZlibCompress(b) == ZlibHeader \o ZlibRuns(b) \o << 0 >> \o << ZlibChecksum(b) >>

RECURSIVE Repeat(_, _)
Repeat(x, k) == IF k = 0 THEN <<>> ELSE << x >> \o Repeat(x, k - 1)

\* The inflater's decoding of the run-length body found in s: the output,
\* the bytes consumed, and whether the end marker was reached.  flate decodes
\* a whole block into its window before it returns any of it.
RECURSIVE ZlibInflate(_, _, _)
ZlibInflate(s, out, used) ==
    IF s = <<>> THEN [out |-> out, used |-> used, fin |-> FALSE]
    ELSE IF Head(s) = 0 THEN [out |-> out, used |-> used + 1, fin |-> TRUE]
    ELSE IF Len(s) < 2 THEN [out |-> out, used |-> used + 1, fin |-> FALSE]
    ELSE ZlibInflate(Drop(s, 2), out \o Repeat(s[2], s[1]), used + 2)


(***************************************************************************)
(* State.                                                                  *)
(***************************************************************************)
VARIABLES
    wire,                  \* unread bytes of the stream (sink of Send, source of Recv)
    sinkBroken,            \* a write to the sink has failed
    cfg,                   \* Transport.cfg
    compressionThreshold,  \* Transport.compressionThreshold
    remaining,             \* FrameReader.remaining
    pr,                    \* the payload reader the caller holds: kind, compressedPayload.remaining
    zr,                    \* the transport's zlib reader
    res,                   \* what the receiver's last call (Recv or a reader method) returned
    got,                   \* payload bytes the caller has read from pr
    skipped,               \* history: the caller has used Skip on pr
    frame,                 \* history: prefix size and length of the frame Next last opened
    fcons,                 \* history: source bytes consumed since Next began that frame
    inflight,              \* history: the Send calls whose bytes are not yet behind the receiver
    hcons,                 \* history: source bytes consumed since the first byte of Head(inflight)
    fhist,                 \* history of a frame reader used on its own: bytes consumed since Next
    codec,                 \* a packet buffer the field codec writes to and reads from
    bufr,                  \* a packet.BufferedReader and its source
    rt,                    \* the transport whose Recv dispatches on a registry, and its source
    mx                     \* the transport with sendMu and recvMu, its goroutines, sink and source

vars ==
    << wire, sinkBroken, cfg, compressionThreshold, remaining, pr, zr, res, got, skipped,
       frame, fcons, inflight, hcons, fhist, codec, bufr, rt, mx >>

\* the state of the transport
transport ==
    << wire, sinkBroken, cfg, compressionThreshold, remaining, pr, zr, res, got, skipped,
       frame, fcons, inflight, hcons >>

\* the state of the units that are used without a transport
units == << fhist, codec, bufr, rt, mx >>

NoHistory == [frameLength |-> 0, all |-> 0, payload |-> 0]

NoCodec == [op |-> "none"]

NoBufferedReader == [op |-> "none"]

NoRegistryTransport == [op |-> "none"]

NoMutexTransport == [op |-> "none"]

NoReader == [kind |-> "none", remaining |-> 0]

ZlibIdle == [st |-> "idle", pend |-> <<>>, tail |-> "nil", sum |-> 0]

\* NewTransport: FrameReader{conn, 0}, compressionThreshold: -1
Init ==
    /\ wire = <<>>
    /\ sinkBroken = FALSE
    /\ cfg \in Configs
    /\ compressionThreshold = -1
    /\ remaining = 0
    /\ pr = NoReader
    /\ zr = ZlibIdle
    /\ res = [op |-> "New", err |-> "nil", n |-> 0]
    /\ got = <<>>
    /\ skipped = FALSE
    /\ frame = [prefix |-> 0, length |-> 0]
    /\ fcons = 0
    /\ inflight = <<>>
    /\ hcons = 0
    /\ fhist = NoHistory
    /\ codec = NoCodec
    /\ bufr = NoBufferedReader
    /\ rt = NoRegistryTransport
    /\ mx = NoMutexTransport

(***************************************************************************)
(* Transport.Send.                                                         *)
(***************************************************************************)
\* variant of SendPlain: the length buffer is never written to the sink
SendPlainPayloadOnly(b) == b

\* variant of SendPlain: the length written counts one byte more than b has
SendPlainCountsOneMore(b) == WriteVarInt(Len(b) + 1) \o b

\* compression disabled: lenbuf := VarInt(len(b)); lenbuf.WriteTo(writer);
\* writer.Write(b)
SendPlain(b) == WriteVarInt(Len(b)) \o b

\* len(b) >= compressionThreshold: the scratch buffer holds VarInt(len(b))
\* and the zlib stream of b; the frame is VarInt(scratch.len) and the scratch
SendCompressed(b) ==
    LET scratch == WriteVarInt(Len(b)) \o ZlibCompress(b)
    IN  WriteVarInt(Len(scratch)) \o scratch

\* compression enabled, len(b) below the threshold: VarInt(len(b) + 1), a
\* single 0 byte, then b
SendBelowThreshold(b) == WriteVarInt(Len(b) + 1) \o << 0 >> \o b

\* variant of SendFrame: the frame is written as if compression were disabled
SendFrameThresholdIgnored(b, t) == SendPlain(b)

\* the bytes one call Send(b) hands to the sink under threshold t
SendFrame(b, t) ==
    IF t < 0 THEN SendPlain(b)
    ELSE IF Len(b) >= t THEN SendCompressed(b)
    ELSE SendBelowThreshold(b)

\* the sender's calls are taken while the receiver is between packets: what
\* Send appends lies behind everything the receiver is reading
BetweenPackets == pr.kind = "none" /\ remaining = 0

\* Send(b) with every write succeeding
Send(b) ==
    /\ ~sinkBroken
    /\ Len(inflight) < MaxInflight
    /\ BetweenPackets
    /\ LET out == SendFrame(b, compressionThreshold)
       IN  /\ wire' = wire \o out
           /\ inflight' = Append(inflight,
                  [b |-> b, thr |-> compressionThreshold, bytes |-> out, ok |-> TRUE])
    /\ UNCHANGED units
    /\ UNCHANGED << sinkBroken, cfg, compressionThreshold, remaining, pr, zr, res, got,
                    skipped, frame, fcons, hcons >>

\* the longest frame Send writes
MaxFrameLen == 2 * MaxLen + 5

\* where a write of the frame out can stop: before its first byte, after the
\* length prefix, one byte short of the end
FailPoints(out) == { 0, Len(out) - 1 } \cup { j \in 1..(Len(out) - 1) : out[j] < 128 /\ \A i \in 1..(j - 1) : out[i] >= 128 }

\* Send(b) with a write to the sink failing after j bytes of the frame: the
\* error is returned, what was written stays written, and the sink is not
\* written to again.  The failure is taken on a drained stream.
SendFail(b, j) ==
    /\ ~sinkBroken
    /\ wire = <<>>
    /\ Len(inflight) < MaxInflight
    /\ BetweenPackets
    /\ LET out == SendFrame(b, compressionThreshold)
       IN  /\ j \in FailPoints(out)
           /\ wire' = wire \o Take(out, j)
           /\ inflight' = Append(inflight,
                  [b |-> b, thr |-> compressionThreshold, bytes |-> Take(out, j), ok |-> FALSE])
    /\ sinkBroken' = TRUE
    /\ UNCHANGED units
    /\ UNCHANGED << cfg, compressionThreshold, remaining, pr, zr, res, got, skipped,
                    frame, fcons, hcons >>

(***************************************************************************)
(* FrameReader (frame.go).  The operators take the unread source bytes w   *)
(* and the remaining counter rem and return what the method returns        *)
(* together with the new w and rem.                                        *)
(***************************************************************************)
\* variant of FrameNext: remaining is not looked at, the next bytes of the
\* source are read as a length prefix
FrameNextUnchecked(w, rem) ==
    LET r == ReadVarIntFromReader(w)
    IN  [length    |-> r.v,
         err       |-> IF r.err # "nil" THEN r.err
                       ELSE IF r.v > 0 THEN "nil" ELSE "InvalidFrameLength",
         wire      |-> Drop(w, r.n),
         remaining |-> IF r.err = "nil" /\ r.v > 0 THEN r.v ELSE rem,
         n         |-> r.n]

\* Next(): NotExhausted without touching the source while rem > 0; else the
\* length prefix is read from the source and, when positive, becomes rem
FrameNext(w, rem) ==
    IF rem > 0
    THEN [length |-> rem, err |-> "NotExhausted", wire |-> w, remaining |-> rem, n |-> 0]
    ELSE LET r == ReadVarIntFromReader(w)
         IN  [length    |-> r.v,
              err       |-> IF r.err # "nil" THEN r.err
                            ELSE IF r.v > 0 THEN "nil" ELSE "InvalidFrameLength",
              wire      |-> Drop(w, r.n),
              remaining |-> IF r.err = "nil" /\ r.v > 0 THEN r.v ELSE rem,
              n         |-> r.n]

\* variant of FrameRead: remaining is lowered by the bytes asked for, not by
\* the bytes the source returned
FrameReadCountsRequest(w, rem, k, n) ==
    IF rem <= 0
    THEN [data |-> <<>>, err |-> "EOF", wire |-> w, remaining |-> rem]
    ELSE LET m    == Min(n, Min(Min(k, rem), Len(w)))
             rem2 == rem - Min(k, rem)
             serr == IF w = <<>> THEN "EOF" ELSE "nil"
         IN  [data      |-> Take(w, m),
              err       |-> IF serr = "EOF" /\ rem2 > 0 THEN "UnexpectedEOF" ELSE serr,
              wire      |-> Drop(w, m),
              remaining |-> rem2]

\* variant of FrameRead: the buffer is not cut down to remaining, so a read
\* runs past the end of the frame
FrameReadPastFrame(w, rem, k, n) ==
    IF rem <= 0
    THEN [data |-> <<>>, err |-> "EOF", wire |-> w, remaining |-> rem]
    ELSE LET m    == Min(n, Min(k, Len(w)))
             rem2 == rem - m
             serr == IF w = <<>> THEN "EOF" ELSE "nil"
         IN  [data      |-> Take(w, m),
              err       |-> IF serr = "EOF" /\ rem2 > 0 THEN "UnexpectedEOF" ELSE serr,
              wire      |-> Drop(w, m),
              remaining |-> rem2]

\* variant of FrameRead: the end of the source is passed on as EOF also
\* while bytes of the frame are missing
FrameReadPassesEOF(w, rem, k, n) ==
    IF rem <= 0
    THEN [data |-> <<>>, err |-> "EOF", wire |-> w, remaining |-> rem]
    ELSE LET m    == Min(n, Min(Min(k, rem), Len(w)))
             rem2 == rem - m
             serr == IF w = <<>> THEN "EOF" ELSE "nil"
         IN  [data      |-> Take(w, m),
              err       |-> serr,
              wire      |-> Drop(w, m),
              remaining |-> rem2]

\* Read(p) with len(p) = k, the source returning n bytes to src.Read
FrameRead(w, rem, k, n) ==
    IF rem <= 0
    THEN [data |-> <<>>, err |-> "EOF", wire |-> w, remaining |-> rem]
    ELSE LET m    == Min(n, Min(Min(k, rem), Len(w)))
             rem2 == rem - m
             serr == IF w = <<>> THEN "EOF" ELSE "nil"
         IN  [data      |-> Take(w, m),
              err       |-> IF serr = "EOF" /\ rem2 > 0 THEN "UnexpectedEOF" ELSE serr,
              wire      |-> Drop(w, m),
              remaining |-> rem2]

\* variant of FrameSkip: the copy reads from the source, not through the
\* frame reader, so the bytes are consumed and remaining is not counted down
FrameSkipFromSource(w, rem) ==
    IF rem <= 0
    THEN [n |-> 0, err |-> "nil", wire |-> w, remaining |-> rem]
    ELSE LET m == Min(rem, Len(w))
         IN  [n         |-> m,
              err       |-> IF m < rem THEN "UnexpectedEOF" ELSE "nil",
              wire      |-> Drop(w, m),
              remaining |-> rem]

\* Skip(): io.CopyN(io.Discard, f, remaining) reads until rem bytes are gone
\* or the source ends
FrameSkip(w, rem) ==
    IF rem <= 0
    THEN [n |-> 0, err |-> "nil", wire |-> w, remaining |-> rem]
    ELSE LET m == Min(rem, Len(w))
         IN  [n         |-> m,
              err       |-> IF m < rem THEN "UnexpectedEOF" ELSE "nil",
              wire      |-> Drop(w, m),
              remaining |-> rem - m]

(***************************************************************************)
(* The zlib reader over the frame reader.                                  *)
(***************************************************************************)
\* zlib Reset(frame): the header is read from the frame at once
ZlibReset(w, rem) ==
    IF Take(w, rem) = <<>>
    THEN [err |-> "UnexpectedEOF", wire |-> w, remaining |-> rem]
    ELSE [err       |-> IF << Head(w) >> = ZlibHeader THEN "nil" ELSE "ZlibHeader",
          wire      |-> Drop(w, 1),
          remaining |-> rem - 1]

\* the reader after the body found in the frame was decoded (inf); the body
\* bytes are consumed, the output is pending
ZlibDecoded(inf, w, rem) ==
    [pend      |-> inf.out,
     tail      |-> IF inf.fin THEN "fin" ELSE "UnexpectedEOF",
     sum       |-> ZlibChecksum(inf.out),
     wire      |-> Drop(w, inf.used),
     remaining |-> rem - inf.used]

\* the first Read decodes the body; later ones go on with what is pending
ZlibFill(z, w, rem) ==
    IF z.tail = "nil"
    THEN ZlibDecoded(ZlibInflate(Take(w, rem), <<>>, 0), w, rem)
    ELSE [pend |-> z.pend, tail |-> z.tail, sum |-> z.sum, wire |-> w, remaining |-> rem]

\* the last pending byte was handed out (data): the stream must have ended
\* and its checksum, read from the frame now, must match
ZlibAtEnd(d, data) ==
    IF d.tail # "fin" \/ Take(d.wire, d.remaining) = <<>>
    THEN [zr |-> [st |-> "err", pend |-> <<>>, tail |-> "UnexpectedEOF", sum |-> d.sum],
          wire |-> d.wire, remaining |-> d.remaining, data |-> data, err |-> "UnexpectedEOF"]
    ELSE IF Head(d.wire) = d.sum
    THEN [zr |-> [st |-> "eof", pend |-> <<>>, tail |-> "fin", sum |-> d.sum],
          wire |-> Drop(d.wire, 1), remaining |-> d.remaining - 1, data |-> data,
          err |-> "EOF"]
    ELSE [zr |-> [st |-> "err", pend |-> <<>>, tail |-> "ZlibChecksum", sum |-> d.sum],
          wire |-> Drop(d.wire, 1), remaining |-> d.remaining - 1, data |-> data,
          err |-> "ZlibChecksum"]

\* up to k pending bytes are handed out
ZlibHandOut(d, k) ==
    IF Len(d.pend) > k
    THEN [zr |-> [st |-> "body", pend |-> Drop(d.pend, k), tail |-> d.tail, sum |-> d.sum],
          wire |-> d.wire, remaining |-> d.remaining, data |-> Take(d.pend, k), err |-> "nil"]
    ELSE ZlibAtEnd(d, d.pend)

\* zlib Read(p) with len(p) = k.  The first call decodes the body; a call
\* that hands out the last decoded byte also meets the end of the stream
\* (reads and checks the checksum) and returns EOF with the data.
ZlibRead(z, w, rem, k) ==
    IF z.st = "eof" THEN [zr |-> z, wire |-> w, remaining |-> rem, data |-> <<>>, err |-> "EOF"]
    ELSE IF z.st # "body"
    THEN [zr |-> z, wire |-> w, remaining |-> rem, data |-> <<>>, err |-> z.tail]
    ELSE ZlibHandOut(ZlibFill(z, w, rem), k)

(***************************************************************************)
(* compressedPayload (frame.go).  p is the reader's record, z the zlib     *)
(* reader, w and rem the source and the frame reader's counter.            *)
(***************************************************************************)
\* variant of CompressedReadReturn: remaining is counted down only when the
\* zlib reader returned no error, so the bytes that come with the end of
\* the stream are not counted
CompressedReadCountsOnSuccess(p, r) ==
    [pr        |-> [p EXCEPT !.remaining =
                       IF r.err = "nil" THEN p.remaining - Len(r.data) ELSE p.remaining],
     zr        |-> r.zr,
     wire      |-> r.wire,
     remaining |-> r.remaining,
     data      |-> r.data,
     err       |-> IF r.err = "EOF" /\ p.remaining - Len(r.data) > 0
                   THEN "ZlibPayloadUnderrun" ELSE r.err]

\* variant of CompressedReadReturn: the end of the zlib stream is passed on
\* as it is, also while declared bytes are unread
CompressedReadKeepsEOF(p, r) ==
    [pr        |-> [p EXCEPT !.remaining = p.remaining - Len(r.data)],
     zr        |-> r.zr,
     wire      |-> r.wire,
     remaining |-> r.remaining,
     data      |-> r.data,
     err       |-> r.err]

\* Read(b): r is what p.zr.Read returned; p.remaining goes down by the bytes
\* read, and an EOF with bytes still declared is an underrun
CompressedReadReturn(p, r) ==
    [pr        |-> [p EXCEPT !.remaining = p.remaining - Len(r.data)],
     zr        |-> r.zr,
     wire      |-> r.wire,
     remaining |-> r.remaining,
     data      |-> r.data,
     err       |-> IF r.err = "EOF" /\ p.remaining - Len(r.data) > 0
                   THEN "ZlibPayloadUnderrun" ELSE r.err]

\* Read(b) with len(b) = k
CompressedRead(p, z, w, rem, k) ==
    IF p.remaining <= 0
    THEN [pr |-> p, zr |-> z, wire |-> w, remaining |-> rem, data |-> <<>>, err |-> "EOF"]
    ELSE CompressedReadReturn(p, ZlibRead(z, w, rem, Min(k, p.remaining)))

\* Skip(): r is what the read of the copy returned; the copy ends without
\* error when all p.remaining bytes were read, else with the error that
\* stopped it
CompressedSkipReturn(r) ==
    [pr        |-> r.pr,
     zr        |-> r.zr,
     wire      |-> r.wire,
     remaining |-> r.remaining,
     n         |-> Len(r.data),
     err       |-> IF r.pr.remaining = 0 THEN "nil" ELSE r.err]

\* Skip(): io.CopyN(io.Discard, p, p.remaining)
CompressedSkip(p, z, w, rem) ==
    IF p.remaining <= 0
    THEN [pr |-> p, zr |-> z, wire |-> w, remaining |-> rem, n |-> 0, err |-> "nil"]
    ELSE CompressedSkipReturn(CompressedRead(p, z, w, rem, p.remaining))

\* Discard(): p.remaining = 0; return p.fr.Skip()
CompressedDiscard(p, z, w, rem) ==
    [pr |-> [p EXCEPT !.remaining = 0], zr |-> z] @@ FrameSkip(w, rem)

\* variant of CompressedCloseReturn: the probe counts as an overrun only
\* when it returned no error
CompressedCloseProbeErrOnly(probe) ==
    [zr        |-> probe.zr,
     wire      |-> probe.wire,
     remaining |-> probe.remaining,
     err       |-> IF probe.err = "nil"
                   THEN "ZlibPayloadOverrun"
                   ELSE IF probe.err # "EOF" THEN probe.err
                   ELSE IF probe.remaining > 0 THEN "ZlibTrailingData"
                   ELSE "nil"]

\* variant of CompressedCloseReturn: the frame is checked for trailing
\* bytes before the error of the probe is looked at
CompressedCloseTrailingFirst(probe) ==
    [zr        |-> probe.zr,
     wire      |-> probe.wire,
     remaining |-> probe.remaining,
     err       |-> IF probe.err = "nil" \/ Len(probe.data) > 0
                   THEN "ZlibPayloadOverrun"
                   ELSE IF probe.remaining > 0 THEN "ZlibTrailingData"
                   ELSE IF probe.err # "EOF" THEN probe.err
                   ELSE "nil"]

\* Close() after the one-byte probe read of the zlib stream returned probe:
\* data or no EOF is an overrun, another error is passed on, bytes left in
\* the frame are trailing data; then zr.Close()
CompressedCloseReturn(probe) ==
    [zr        |-> probe.zr,
     wire      |-> probe.wire,
     remaining |-> probe.remaining,
     err       |-> IF probe.err = "nil" \/ Len(probe.data) > 0
                   THEN "ZlibPayloadOverrun"
                   ELSE IF probe.err # "EOF" THEN probe.err
                   ELSE IF probe.remaining > 0 THEN "ZlibTrailingData"
                   ELSE "nil"]

\* Close(): NotExhausted while declared bytes are unread; else the probe
CompressedClose(p, z, w, rem) ==
    IF p.remaining > 0
    THEN [zr |-> z, wire |-> w, remaining |-> rem, err |-> "NotExhausted"]
    ELSE CompressedCloseReturn(ZlibRead(z, w, rem, 1))

(***************************************************************************)
(* plainPayload (frame.go): the frame reader itself.                       *)
(***************************************************************************)
\* variant of PlainClose: the check of remaining is left out
PlainCloseUnchecked(rem) == "nil"

\* Close(): NotExhausted while frame bytes remain; touches nothing
PlainClose(rem) == IF rem > 0 THEN "NotExhausted" ELSE "nil"

\* variant of PlainDiscard: the counter is cleared and the bytes stay in the
\* source
PlainDiscardKeepsBytes(w, rem) == [n |-> 0, err |-> "nil", wire |-> w, remaining |-> 0]

\* Discard(): return p.Skip()
PlainDiscard(w, rem) == FrameSkip(w, rem)

\* Remaining() of the reader the caller holds
PayloadRemaining == IF pr.kind = "zlib" THEN pr.remaining ELSE remaining

(***************************************************************************)
(* Transport.Recv.                                                         *)
(***************************************************************************)
\* the compressed payload reader returned after the zlib reader was reset
\* onto the frame (z is what the reset returned)
RecvZlib(z, declared) ==
    [err       |-> z.err,
     wire      |-> z.wire,
     remaining |-> z.remaining,
     pr        |-> IF z.err = "nil" THEN [kind |-> "zlib", remaining |-> declared]
                   ELSE NoReader,
     zr        |-> [ZlibIdle EXCEPT !.st = IF z.err = "nil" THEN "body" ELSE "err",
                                    !.tail = z.err]]

\* decompressedLen > 0: the bound, then the zlib reader is reset onto the
\* frame and a compressed payload reader over it is returned
RecvCompressed(w, rem, c, z0, declared) ==
    IF declared > c.MaxDecompressedLen
    THEN [err |-> "PacketTooBig", wire |-> w, remaining |-> rem, pr |-> NoReader, zr |-> z0]
    ELSE RecvZlib(ZlibReset(w, rem), declared)

\* variant of RecvDeclared: a negative declared length is not refused, the
\* plain reader is returned as for 0
RecvDeclaredNegativeAsZero(d, w, rem, c, z0) ==
    IF d.err # "nil"
    THEN [err |-> d.err, wire |-> Drop(w, d.n), remaining |-> rem - d.n,
          pr |-> NoReader, zr |-> z0]
    ELSE IF d.v > 0 THEN RecvCompressed(Drop(w, d.n), rem - d.n, c, z0, d.v)
    ELSE [err |-> "nil", wire |-> Drop(w, d.n), remaining |-> rem - d.n,
          pr |-> [kind |-> "plain", remaining |-> 0], zr |-> z0]

\* compression enabled: d is what ReadVarIntFromReader(&t.fReader) returned
\* for decompressedLen, read from the frame w, rem
RecvDeclared(d, w, rem, c, z0) ==
    IF d.err # "nil"
    THEN [err |-> d.err, wire |-> Drop(w, d.n), remaining |-> rem - d.n,
          pr |-> NoReader, zr |-> z0]
    ELSE IF d.v > 0 THEN RecvCompressed(Drop(w, d.n), rem - d.n, c, z0, d.v)
    ELSE IF d.v < 0
    THEN [err |-> "InvalidDataLength", wire |-> Drop(w, d.n), remaining |-> rem - d.n,
          pr |-> NoReader, zr |-> z0]
    ELSE [err |-> "nil", wire |-> Drop(w, d.n), remaining |-> rem - d.n,
          pr |-> [kind |-> "plain", remaining |-> 0], zr |-> z0]

\* variant of RecvFrame: the declared length is read whether or not
\* compression is enabled
RecvFrameAlwaysDeclared(w, rem, c, t, z0, frameLength) ==
    IF frameLength > c.MaxPacketLen
    THEN [err |-> "PacketTooBig", wire |-> w, remaining |-> rem, pr |-> NoReader, zr |-> z0]
    ELSE IF FALSE
    THEN [err |-> "nil", wire |-> w, remaining |-> rem,
          pr |-> [kind |-> "plain", remaining |-> 0], zr |-> z0]
    ELSE RecvDeclared(ReadVarInt(Take(w, rem)), w, rem, c, z0)

\* variant of RecvFrame: a frame of exactly MaxPacketLen bytes is refused
RecvFrameBoundOffByOne(w, rem, c, t, z0, frameLength) ==
    IF frameLength >= c.MaxPacketLen
    THEN [err |-> "PacketTooBig", wire |-> w, remaining |-> rem, pr |-> NoReader, zr |-> z0]
    ELSE IF t < 0
    THEN [err |-> "nil", wire |-> w, remaining |-> rem,
          pr |-> [kind |-> "plain", remaining |-> 0], zr |-> z0]
    ELSE RecvDeclared(ReadVarInt(Take(w, rem)), w, rem, c, z0)

\* variant of RecvFrame: a frame that is too big is skipped before the error
\* is returned
RecvFrameDrainsTooBig(w, rem, c, t, z0, frameLength) ==
    IF frameLength > c.MaxPacketLen
    THEN [err |-> "PacketTooBig", wire |-> Drop(w, rem), remaining |-> 0,
          pr |-> NoReader, zr |-> z0]
    ELSE IF t < 0
    THEN [err |-> "nil", wire |-> w, remaining |-> rem,
          pr |-> [kind |-> "plain", remaining |-> 0], zr |-> z0]
    ELSE RecvDeclared(ReadVarInt(Take(w, rem)), w, rem, c, z0)

\* Recv() after Next returned frameLength without error.  pr.kind = "none"
\* in the result means that nil was returned for the reader.
RecvFrame(w, rem, c, t, z0, frameLength) ==
    IF frameLength > c.MaxPacketLen
    THEN [err |-> "PacketTooBig", wire |-> w, remaining |-> rem, pr |-> NoReader, zr |-> z0]
    ELSE IF t < 0
    THEN [err |-> "nil", wire |-> w, remaining |-> rem,
          pr |-> [kind |-> "plain", remaining |-> 0], zr |-> z0]
    ELSE RecvDeclared(ReadVarInt(Take(w, rem)), w, rem, c, z0)

(***************************************************************************)
(* History bookkeeping: which Send call the receiver is inside.            *)
(***************************************************************************)
\* drop from the head of q the Send calls whose bytes are all consumed
RECURSIVE PopConsumed(_, _)
PopConsumed(q, h) ==
    IF q # <<>> /\ h >= Len(Head(q).bytes)
    THEN PopConsumed(Tail(q), h - Len(Head(q).bytes))
    ELSE [inflight |-> q, hcons |-> h]

Consumed(w2) == Len(wire) - Len(w2)

(***************************************************************************)
(* The calls, as actions.                                                  *)
(***************************************************************************)
\* the source and the counters after a call that left the source as w2 and
\* the frame reader's counter as rem2
Consume(w2, rem2) ==
    /\ wire' = w2
    /\ remaining' = rem2
    /\ fcons' = fcons + Consumed(w2)
    /\ hcons' = hcons + Consumed(w2)

\* Recv() refused by Next with NotExhausted: nothing moves, and the caller
\* keeps the reader it holds
RecvRefused(nx) ==
    /\ res' = [op |-> "Recv", err |-> nx.err, n |-> nx.length]
    /\ UNCHANGED units
    /\ UNCHANGED << wire, sinkBroken, cfg, compressionThreshold, remaining, pr, zr, got,
                    skipped, frame, fcons, inflight, hcons >>

\* Recv() returns fr after Next read a length prefix (nx) from the source:
\* the reader the caller held is no longer the reader of the current packet,
\* the caller holds what this Recv returned
RecvReturn(nx, fr, pop) ==
    /\ wire' = fr.wire
    /\ remaining' = fr.remaining
    /\ zr' = fr.zr
    /\ pr' = fr.pr
    /\ got' = <<>>
    /\ skipped' = FALSE
    /\ res' = [op |-> "Recv", err |-> fr.err, n |-> nx.length]
    /\ frame' = [prefix |-> nx.n, length |-> IF nx.err = "nil" THEN nx.length ELSE 0]
    /\ fcons' = Consumed(fr.wire)
    /\ inflight' = pop.inflight
    /\ hcons' = pop.hcons + Consumed(fr.wire)
    /\ UNCHANGED units
    /\ UNCHANGED << sinkBroken, cfg, compressionThreshold >>

\* Recv() after Next returned nx
RecvAfterNext(nx) ==
    IF nx.err = "NotExhausted" THEN RecvRefused(nx)
    ELSE RecvReturn(nx,
                    IF nx.err = "nil"
                    THEN RecvFrame(nx.wire, nx.remaining, cfg, compressionThreshold, zr,
                                   nx.length)
                    ELSE [err |-> nx.err, wire |-> nx.wire, remaining |-> nx.remaining,
                          pr |-> NoReader, zr |-> zr],
                    PopConsumed(inflight, hcons))

\* Transport.Recv()
Recv == RecvAfterNext(FrameNext(wire, remaining))

\* pr.Read(p) returned r
ReadReturn(r) ==
    /\ Consume(r.wire, r.remaining)
    /\ pr' = r.pr
    /\ zr' = r.zr
    /\ got' = got \o r.data
    /\ res' = [op |-> "Read", err |-> r.err, n |-> Len(r.data)]
    /\ UNCHANGED units
    /\ UNCHANGED << sinkBroken, cfg, compressionThreshold, skipped, frame, inflight >>

\* pr.Read(p) with len(p) = k; the source may return fewer bytes than asked
\* for (n of them)
Read(k, n) ==
    /\ pr.kind # "none"
    /\ n \in 1..k
    /\ pr.kind = "zlib" => n = k
    /\ ReadReturn(IF pr.kind = "plain"
                  THEN [pr |-> pr, zr |-> zr] @@ FrameRead(wire, remaining, k, n)
                  ELSE CompressedRead(pr, zr, wire, remaining, k))

\* pr.Skip() returned r
SkipReturn(r) ==
    /\ Consume(r.wire, r.remaining)
    /\ pr' = r.pr
    /\ zr' = r.zr
    /\ res' = [op |-> "Skip", err |-> r.err, n |-> r.n]
    /\ skipped' = (skipped \/ r.n > 0)
    /\ UNCHANGED units
    /\ UNCHANGED << sinkBroken, cfg, compressionThreshold, got, frame, inflight >>

\* pr.Skip()
Skip ==
    /\ pr.kind # "none"
    /\ SkipReturn(IF pr.kind = "plain"
                  THEN [pr |-> pr, zr |-> zr] @@ FrameSkip(wire, remaining)
                  ELSE CompressedSkip(pr, zr, wire, remaining))

\* pr.Close() returned r.  A Close that returns nil ends the caller's use of
\* the reader; the zlib reader's state is not read again before its next
\* Reset.
CloseReturn(r) ==
    /\ Consume(r.wire, r.remaining)
    /\ pr' = IF r.err = "nil" THEN NoReader ELSE pr
    /\ zr' = IF r.err = "nil" THEN ZlibIdle ELSE r.zr
    /\ res' = [op |-> "Close", err |-> r.err, n |-> 0]
    /\ UNCHANGED units
    /\ UNCHANGED << sinkBroken, cfg, compressionThreshold, got, skipped, frame, inflight >>

\* pr.Close()
Close ==
    /\ pr.kind # "none"
    /\ CloseReturn(IF pr.kind = "plain"
                   THEN [zr |-> zr, wire |-> wire, remaining |-> remaining,
                         err |-> PlainClose(remaining)]
                   ELSE CompressedClose(pr, zr, wire, remaining))

\* pr.Discard() returned r: the caller abandons the packet and the reader
DiscardReturn(r) ==
    /\ Consume(r.wire, r.remaining)
    /\ res' = [op |-> "Discard", err |-> r.err, n |-> r.n]
    /\ pr' = NoReader
    /\ zr' = ZlibIdle
    /\ UNCHANGED units
    /\ UNCHANGED << sinkBroken, cfg, compressionThreshold, got, skipped, frame, inflight >>

\* pr.Discard()
Discard ==
    /\ pr.kind # "none"
    /\ DiscardReturn(IF pr.kind = "plain"
                     THEN PlainDiscard(wire, remaining)
                     ELSE CompressedDiscard(pr, zr, wire, remaining))

\* the caller writes compressionThreshold, between whole packets: no reader
\* outstanding, no frame open, nothing in flight on the stream
SetThreshold(t) ==
    /\ pr.kind = "none"
    /\ remaining = 0
    /\ wire = <<>>
    /\ t # compressionThreshold
    /\ compressionThreshold' = t
    /\ UNCHANGED units
    /\ UNCHANGED << wire, sinkBroken, cfg, remaining, pr, zr, res, got, skipped, frame,
                    fcons, inflight, hcons >>

Next ==
    \/ \E b \in Payloads : Send(b)
    \/ \E b \in Payloads : \E j \in 0..MaxFrameLen : SendFail(b, j)
    \/ Recv
    \/ \E k \in BufSizes : \E n \in 1..k : Read(k, n)
    \/ Skip
    \/ Close
    \/ Discard
    \/ \E t \in Thresholds : SetThreshold(t)

Spec == Init /\ [][Next]_vars

(***************************************************************************)
(* Frames that Send does not write: a peer (the transport tests, which     *)
(* write forged frames straight into the buffer) puts a frame on the       *)
(* stream whose declared uncompressed length, zlib checksum or tail do not *)
(* fit the zlib stream it carries.                                         *)
(***************************************************************************)
\* declared uncompressed lengths of forged frames
DeclaredLens == {-1} \cup 1..(MaxLen + 1)

\* bytes that follow the zlib stream in a forged frame
Trailers == { <<>>, << 7 >> }

\* the zlib stream of b, with a wrong checksum unless good
ForgedStream(b, good) ==
    IF good THEN ZlibCompress(b)
    ELSE ZlibHeader \o ZlibRuns(b) \o << 0 >> \o << (ZlibChecksum(b) + 1) % 256 >>

\* VarInt(len(body)) and the body
Framed(body) == WriteVarInt(Len(body)) \o body

\* the frame: VarInt(d), the zlib stream, the trailer
ForgeFrame(d, b, extra, good) == Framed(WriteVarInt(d) \o ForgedStream(b, good) \o extra)

\* the peer writes one forged frame onto the drained stream
Inject(d, b, extra, good) ==
    /\ inflight = <<>>
    /\ BetweenPackets
    /\ wire' = wire \o ForgeFrame(d, b, extra, good)
    /\ inflight' = << [b |-> b, thr |-> compressionThreshold,
                       bytes |-> ForgeFrame(d, b, extra, good), ok |-> FALSE,
                       declared |-> d, extra |-> extra, good |-> good] >>
    /\ UNCHANGED units
    /\ UNCHANGED << sinkBroken, cfg, compressionThreshold, remaining, pr, zr, res, got,
                    skipped, frame, fcons, hcons >>

NextForged ==
    \/ \E d \in DeclaredLens : \E b \in Payloads : \E extra \in Trailers :
          \E good \in BOOLEAN : Inject(d, b, extra, good)
    \/ Recv
    \/ \E k \in BufSizes : \E n \in 1..k : Read(k, n)
    \/ Skip
    \/ Close
    \/ Discard
    \/ \E t \in Thresholds : SetThreshold(t)

SpecForged == Init /\ [][NextForged]_vars

(***************************************************************************)
(* Vocabulary of the properties.                                           *)
(***************************************************************************)
\* the oldest Send call whose bytes are not all behind the receiver
HeadSend == Head(inflight)

RECURSIVE ConcatBytes(_)
ConcatBytes(q) == IF q = <<>> THEN <<>> ELSE Head(q).bytes \o ConcatBytes(Tail(q))

IsPrefix(s, t) == Len(s) <= Len(t) /\ SubSeq(t, 1, Len(s)) = s

\* the receiver is in a frame that began at the first byte HeadSend wrote
AtHead == inflight # <<>> /\ hcons = fcons /\ hcons > 0

\* bytes is one whole frame: a length prefix and exactly that many bytes
WholeFrame(bytes) ==
    LET r == ReadVarInt(bytes)
    IN  r.err = "nil" /\ r.v >= 0 /\ r.n + r.v = Len(bytes)

\* the frame length the receiver decodes from what Send call e wrote
FrameLengthOf(e) == ReadVarInt(e.bytes).v

\* Send call e took the zlib path
Compressed(e) == e.thr >= 0 /\ Len(e.b) >= e.thr

\* Send call e succeeded and its frame is within the receiver's limits
WithinLimits(e) ==
    /\ e.ok
    /\ FrameLengthOf(e) <= cfg.MaxPacketLen
    /\ Compressed(e) => Len(e.b) <= cfg.MaxDecompressedLen

\* Recv, reading until EOF and Close on the frame of Send call e: Recv issues
\* a reader, the reads make progress and deliver e.b and nothing else, the EOF
\* comes when all of e.b was delivered, and Close then returns nil with the
\* source exactly behind the frame
RoundTrip(e) ==
    /\ (res.op = "Recv" /\ res.err # "NotExhausted") => (res.err = "nil" /\ pr.kind # "none")
    /\ (pr.kind # "none" /\ ~skipped) => IsPrefix(got, e.b)
    /\ (res.op = "Read" /\ ~skipped) =>
          /\ res.err \in {"nil", "EOF"}
          /\ res.err = "nil" => res.n > 0
          /\ res.err = "EOF" => got = e.b
    /\ (res.op = "Close" /\ ~skipped /\ got = e.b) =>
          (res.err = "nil" /\ remaining = 0 /\ hcons = Len(e.bytes))

\* the last call was a Close that returned nil
ClosedNil == res.op = "Close" /\ res.err = "nil"

(***************************************************************************)
(* C1.  After Recv succeeded and Close on its reader returned nil, the     *)
(* bytes consumed from the source since the frame began are the whole      *)
(* frame, length prefix plus frameLength bytes, and the frame reader's     *)
(* remaining is 0; when the frame is the one a Send call wrote, the source *)
(* stands exactly behind that call's bytes.                                *)
(***************************************************************************)
C1_CloseConsumesWholeFrame ==
    ClosedNil =>
        /\ remaining = 0
        /\ fcons = frame.prefix + frame.length
        /\ (AtHead /\ HeadSend.ok) =>
              (hcons = Len(HeadSend.bytes) /\ wire = ConcatBytes(Tail(inflight)))

\* a compressed two-byte payload was read and closed without error
C1_Witness ==
    /\ ClosedNil
    /\ AtHead /\ HeadSend.ok /\ Compressed(HeadSend)
    /\ Len(HeadSend.b) = 2 /\ got = HeadSend.b

C3_PlainRoundTripAnyLength ==
    (AtHead /\ HeadSend.ok /\ HeadSend.thr < 0 /\ HeadSend.b # <<>>) =>
        /\ WholeFrame(HeadSend.bytes)
        /\ FrameLengthOf(HeadSend) = Len(HeadSend.b)
        /\ RoundTrip(HeadSend)

(***************************************************************************)
(* C3, amended.  The same for every non-empty payload b of at most         *)
(* cfg.MaxPacketLen bytes.                                                 *)
(***************************************************************************)
C3_PlainRoundTrip ==
    (AtHead /\ HeadSend.ok /\ HeadSend.thr < 0 /\ HeadSend.b # <<>>
        /\ Len(HeadSend.b) <= cfg.MaxPacketLen) =>
        /\ WholeFrame(HeadSend.bytes)
        /\ FrameLengthOf(HeadSend) = Len(HeadSend.b)
        /\ RoundTrip(HeadSend)

\* a plain payload of exactly MaxPacketLen bytes was read to EOF and closed
C3_Witness ==
    /\ ClosedNil /\ ~skipped
    /\ AtHead /\ HeadSend.ok /\ HeadSend.thr < 0
    /\ Len(HeadSend.b) = cfg.MaxPacketLen
    /\ got = HeadSend.b
    /\ hcons = Len(HeadSend.bytes)

(***************************************************************************)
(* C4, as stated.  The frames lie on the wire in the order of the Send     *)
(* calls, every Recv that reads a length prefix starts at the first byte   *)
(* of the oldest Send call not yet consumed, and Recv, reading until EOF   *)
(* and Close return that call's payload: for any payloads.                 *)
(***************************************************************************)
C4_OrderAnyPayload ==
    /\ wire = Drop(ConcatBytes(inflight), hcons)
    /\ (res.op = "Recv" /\ res.err # "NotExhausted") => hcons = fcons
    /\ (AtHead /\ HeadSend.ok) => RoundTrip(HeadSend)

(***************************************************************************)
(* C4, amended.  The same for non-empty payloads whose frames are within   *)
(* the receiver's limits (frame length at most MaxPacketLen and, when      *)
(* compressed, payload length at most MaxDecompressedLen).                 *)
(***************************************************************************)
C4_Order ==
    /\ wire = Drop(ConcatBytes(inflight), hcons)
    /\ (res.op = "Recv" /\ res.err # "NotExhausted") => hcons = fcons
    /\ (AtHead /\ WithinLimits(HeadSend) /\ HeadSend.b # <<>>) => RoundTrip(HeadSend)

\* the older of two different payloads in flight was read to EOF and closed
\* while the frame of the younger waits on the wire
C4_Witness ==
    /\ ClosedNil /\ ~skipped
    /\ Len(inflight) = 2
    /\ AtHead /\ WithinLimits(HeadSend) /\ WithinLimits(inflight[2])
    /\ HeadSend.b # <<>> /\ inflight[2].b # <<>> /\ HeadSend.b # inflight[2].b
    /\ got = HeadSend.b
    /\ wire = inflight[2].bytes

C6_CloseUnreadKeepsState ==
    [][(Close /\ PayloadRemaining > 0) =>
          /\ res'.err = "NotExhausted"
          /\ wire' = wire
          /\ remaining' = remaining
          /\ pr' = pr]_vars

\* Close answered NotExhausted after one byte of a longer payload was read
C6_Witness ==
    /\ res.op = "Close" /\ res.err = "NotExhausted"
    /\ Len(got) = 1
    /\ PayloadRemaining > 0

(***************************************************************************)
(* C7.  Recv issues no payload reader while the caller holds one that was  *)
(* not released by Close or Discard, also when its payload was read to the *)
(* end.                                                                    *)
(***************************************************************************)
C7_OneReaderOutstanding ==
    [][(Recv /\ pr.kind # "none") => res'.err # "nil"]_vars

(***************************************************************************)
(* C8.  When Recv ends with PacketTooBig because the frame length exceeds  *)
(* MaxPacketLen, no payload byte was consumed and remaining is the frame   *)
(* length: the whole payload of the frame is pending.  When Recv ends with *)
(* InvalidFrameLength, remaining is 0.                                     *)
(***************************************************************************)
C8_NoIdleLeak ==
    /\ (res.op = "Recv" /\ res.err = "PacketTooBig" /\ res.n > cfg.MaxPacketLen) =>
          /\ remaining = res.n
          /\ fcons = frame.prefix
          /\ (AtHead /\ HeadSend.ok) =>
                (remaining = FrameLengthOf(HeadSend)
                 /\ hcons + remaining = Len(HeadSend.bytes))
    /\ (res.op = "Recv" /\ res.err = "InvalidFrameLength") =>
          (remaining = 0 /\ pr.kind = "none")

\* Recv refused a plain two-byte payload under MaxPacketLen = 1
C8_Witness ==
    /\ res.op = "Recv" /\ res.err = "PacketTooBig" /\ res.n > cfg.MaxPacketLen
    /\ AtHead /\ HeadSend.ok /\ HeadSend.thr < 0
    /\ remaining = 2

(***************************************************************************)
(* C9.  After a Recv that returned an error before it issued a reader      *)
(* (PacketTooBig, InvalidDataLength, InvalidFrameLength) the transport is  *)
(* not stuck: the caller holds a reader to discard the pending bytes with, *)
(* or the next Recv is not refused with NotExhausted.                      *)
(***************************************************************************)
C9_NotStuckAfterRecvError ==
    (res.op = "Recv" /\ res.err \in {"PacketTooBig", "InvalidDataLength", "InvalidFrameLength"}) =>
        (pr.kind # "none" \/ FrameNext(wire, remaining).err # "NotExhausted")

(***************************************************************************)
(* C10.  Compression is transparent: with a threshold t >= 0, for any      *)
(* payload b whose frame is within the receiver's limits, Recv, reading    *)
(* until EOF and Close return exactly b without error, on the zlib path    *)
(* and on the zero-marker path.                                            *)
(***************************************************************************)
C10_CompressionTransparent ==
    (AtHead /\ HeadSend.thr >= 0 /\ WithinLimits(HeadSend)) => RoundTrip(HeadSend)

(***************************************************************************)
(* Vocabulary of the encoding claims: the decoders read a frame back.      *)
(***************************************************************************)
\* the number of bytes of the VarInt of a non-negative v
VarIntLen(v) ==
    IF v < 128 THEN 1
    ELSE IF v < 128 * 128 THEN 2
    ELSE IF v < 128 * 128 * 128 THEN 3
    ELSE IF v < Pow28 THEN 4
    ELSE 5

\* inf is the inflater's decoding of the stream body zt: it ends at the end
\* marker with b as output, and one checksum byte of b closes zt
InflatedTo(inf, zt, b) ==
    /\ inf.fin
    /\ inf.out = b
    /\ Len(zt) = inf.used + 1
    /\ zt[Len(zt)] = ZlibChecksum(b)

\* z is one whole zlib stream of b
IsZlibStreamOf(z, b) ==
    /\ z # <<>>
    /\ << Head(z) >> = ZlibHeader
    /\ InflatedTo(ZlibInflate(Tail(z), <<>>, 0), Tail(z), b)

\* bytes is VarInt(len(b)) followed by b
IsPlainFrameOf(bytes, r, b) ==
    r.err = "nil" /\ r.v = Len(b) /\ Drop(bytes, r.n) = b

\* bytes is VarInt(len(b) + 1), a single 0 byte, then b
IsMarkerFrameOf(bytes, r, b) ==
    r.err = "nil" /\ r.v = Len(b) + 1 /\ Drop(bytes, r.n) = << 0 >> \o b

\* body begins with VarInt(len(b)) (decoded as d) and goes on with one whole
\* zlib stream of b
IsZlibBodyOf(body, d, b) ==
    d.err = "nil" /\ d.v = Len(b) /\ IsZlibStreamOf(Drop(body, d.n), b)

\* bytes is a length prefix counting the rest, which is a zlib body of b
IsZlibFrameOf(bytes, r, b) ==
    /\ r.err = "nil"
    /\ r.v = Len(bytes) - r.n
    /\ IsZlibBodyOf(Drop(bytes, r.n), ReadVarInt(Drop(bytes, r.n)), b)

\* what the encoding rule asks of the bytes of the successful Send call e
EncodedByRule(e, r) ==
    IF e.thr < 0 THEN IsPlainFrameOf(e.bytes, r, e.b)
    ELSE IF Len(e.b) >= e.thr THEN IsZlibFrameOf(e.bytes, r, e.b)
    ELSE IsMarkerFrameOf(e.bytes, r, e.b)

RecvIssued == res.op = "Recv" /\ res.err = "nil"

\* the declared uncompressed length found inside the frame whose bytes are
\* given: the VarInt behind the length prefix
DeclaredIn(bytes) == ReadVarInt(Drop(bytes, ReadVarInt(bytes).n))

\* the reader a successful Recv holds, by the threshold and the declared
\* length
ReaderIssuedByRule ==
    /\ compressionThreshold < 0 =>
          (pr.kind = "plain" /\ remaining = frame.length /\ fcons = frame.prefix)
    /\ compressionThreshold >= 0 =>
          /\ pr.kind = "plain" => (remaining = frame.length - 1 /\ fcons = frame.prefix + 1)
          /\ pr.kind = "zlib" => pr.remaining \in 1..cfg.MaxDecompressedLen
          /\ (AtHead /\ HeadSend.ok) =>
                /\ pr.kind = "plain" <=> DeclaredIn(HeadSend.bytes).v = 0
                /\ pr.kind = "zlib" => PayloadRemaining = DeclaredIn(HeadSend.bytes).v

(***************************************************************************)
(* C13.  Right after a Recv that returned a reader: with a threshold below *)
(* 0 the reader is a plain one over the whole frame, Remaining is the      *)
(* frame length and nothing but the length prefix was read; with a         *)
(* threshold >= 0 the declared length was read from inside the frame, a    *)
(* declared 0 gives a plain reader whose Remaining is the frame length     *)
(* minus the one byte of the declared length, and a positive declared      *)
(* length, which is then at most MaxDecompressedLen, gives a compressed    *)
(* reader whose Remaining is the declared length.  A frame Send wrote that *)
(* is within the receiver's limits is given a reader.                      *)
(***************************************************************************)
C13_RecvReaderByThreshold ==
    /\ (res.op = "Recv" /\ res.err # "NotExhausted" /\ AtHead /\ HeadSend.ok
          /\ frame.length \in 1..cfg.MaxPacketLen
          /\ (compressionThreshold >= 0 =>
                 DeclaredIn(HeadSend.bytes).v \in 0..cfg.MaxDecompressedLen))
       => RecvIssued
    /\ RecvIssued => ReaderIssuedByRule

\* Recv returned a plain reader for a one-byte payload sent below the
\* threshold 2: the frame has two bytes, Remaining is 1
C13_Witness ==
    /\ RecvIssued /\ AtHead /\ HeadSend.ok
    /\ compressionThreshold = 2 /\ Len(HeadSend.b) = 1
    /\ pr.kind = "plain" /\ frame.length = 2 /\ PayloadRemaining = 1

\* Recv returned a compressed reader for a two-byte payload
C13_WitnessZlib ==
    /\ RecvIssued /\ AtHead /\ HeadSend.ok
    /\ compressionThreshold = 2 /\ Len(HeadSend.b) = 2
    /\ pr.kind = "zlib" /\ PayloadRemaining = 2

\* Recv has just returned from the first frame of HeadSend, which is one
\* whole frame within MaxPacketLen, with compression enabled
RecvOfWholeFrame ==
    /\ res.op = "Recv" /\ res.err # "NotExhausted"
    /\ AtHead /\ WholeFrame(HeadSend.bytes)
    /\ frame.length \in 1..cfg.MaxPacketLen
    /\ compressionThreshold >= 0

\* Recv returned err and no reader, and read nothing of the frame behind
\* the declared length d
RefusedAtDeclared(d, err) ==
    /\ res.err = err
    /\ pr.kind = "none"
    /\ fcons = frame.prefix + d.n
    /\ remaining = frame.length - d.n

\* the declared length d of the frame Recv returned from is refused when it
\* is negative or above MaxDecompressedLen
DeclaredRefused(d) ==
    /\ (d.err = "nil" /\ d.v > cfg.MaxDecompressedLen) => RefusedAtDeclared(d, "PacketTooBig")
    /\ (d.err = "nil" /\ d.v < 0) => RefusedAtDeclared(d, "InvalidDataLength")

\* the state a Recv leaves behind on a frame with such a declared length
RefusedByDeclaredLength ==
    RecvOfWholeFrame => DeclaredRefused(DeclaredIn(HeadSend.bytes))

(***************************************************************************)
(* C14.  With compression enabled, a Recv that finds a declared length     *)
(* above MaxDecompressedLen returns PacketTooBig and one that finds a      *)
(* negative declared length returns InvalidDataLength; in both cases no    *)
(* reader is issued, no byte of the frame behind the declared length is    *)
(* read and the zlib reader is left as it was.                             *)
(***************************************************************************)
C14_DeclaredLengthRefused ==
    [][Recv =>
         /\ RefusedByDeclaredLength'
         /\ res'.err \in {"PacketTooBig", "InvalidDataLength"} => zr' = zr]_vars

\* Recv refused a forged frame whose declared length is -1
C14_Witness ==
    /\ RecvOfWholeFrame
    /\ DeclaredIn(HeadSend.bytes).v = -1
    /\ res.err = "InvalidDataLength"

\* Recv refused a frame whose declared length is above MaxDecompressedLen
C14_WitnessTooBig ==
    /\ RecvOfWholeFrame
    /\ DeclaredIn(HeadSend.bytes).v > cfg.MaxDecompressedLen
    /\ res.err = "PacketTooBig"

(***************************************************************************)
(* Vocabulary of the claims on forged frames.                              *)
(***************************************************************************)
\* e is a forged frame: a declared length, a zlib stream of e.b with a good
\* or a bad checksum, and trailing bytes
Forged(e) == "declared" \in DOMAIN e

\* the caller holds the compressed reader Recv issued for the forged frame
\* HeadSend
OnForgedZlib == AtHead /\ Forged(HeadSend) /\ pr.kind = "zlib"

\* the last call delivered payload bytes, or was the Recv that issued the
\* reader: no Close has probed the zlib stream of this reader yet
NotYetProbed == RecvIssued \/ (res.op \in {"Read", "Skip"} /\ res.n > 0)

(***************************************************************************)
(* C15.  On a compressed payload whose zlib stream inflates to more bytes  *)
(* than the declared length, once exactly the declared number of bytes was *)
(* read, Close returns ZlibPayloadOverrun.                                 *)
(***************************************************************************)
C15_CloseOverrun ==
    [][(Close /\ OnForgedZlib /\ NotYetProbed
          /\ HeadSend.declared < Len(HeadSend.b)
          /\ Len(got) = HeadSend.declared /\ ~skipped)
       => (res'.err = "ZlibPayloadOverrun" /\ got = Take(HeadSend.b, HeadSend.declared))]_vars

\* Close returned ZlibPayloadOverrun after one byte was read of a frame that
\* declares one byte and inflates to two
C15_Witness ==
    /\ OnForgedZlib /\ HeadSend.declared = 1 /\ Len(HeadSend.b) = 2
    /\ Len(got) = 1 /\ ~skipped
    /\ res.op = "Close" /\ res.err = "ZlibPayloadOverrun"

\* what the first probing Close on the forged frame e returns, by the order
\* of the checks, with rem declared bytes unread
CloseInOrder(e, rem) ==
    IF rem > 0 THEN "NotExhausted"
    ELSE IF e.declared < Len(e.b) THEN "ZlibPayloadOverrun"
    ELSE IF ~e.good THEN "ZlibChecksum"
    ELSE IF e.extra # <<>> THEN "ZlibTrailingData"
    ELSE "nil"

(***************************************************************************)
(* C16.  Close of a compressed reader applies its checks in this order:    *)
(* NotExhausted while declared bytes are unread; then ZlibPayloadOverrun   *)
(* when the stream holds more than was declared; then the error of the     *)
(* stream (a bad checksum) is passed on; then ZlibTrailingData when the    *)
(* stream ended cleanly and bytes are left in the frame; else nil, and the *)
(* reader is released.  A frame whose declared length is the inflated      *)
(* length and that has bytes behind the stream delivers the whole payload  *)
(* and then fails Close with ZlibTrailingData.                             *)
(***************************************************************************)
C16_CloseCheckOrder ==
    [][(Close /\ OnForgedZlib /\ NotYetProbed) =>
         /\ res'.err = CloseInOrder(HeadSend, pr.remaining)
         /\ res'.err = "nil" => (pr'.kind = "none" /\ zr' = ZlibIdle)
         /\ (res'.err = "ZlibTrailingData" /\ ~skipped) => got = HeadSend.b]_vars

\* Close returned ZlibTrailingData after the whole two-byte payload was read
\* from a frame with a byte behind the zlib stream
C16_Witness ==
    /\ OnForgedZlib /\ HeadSend.declared = 2 /\ HeadSend.good /\ HeadSend.extra # <<>>
    /\ got = HeadSend.b /\ ~skipped
    /\ res.op = "Close" /\ res.err = "ZlibTrailingData"

\* Close passed the checksum error on, before the check for trailing data
C16_WitnessChecksum ==
    /\ OnForgedZlib /\ ~HeadSend.good /\ HeadSend.extra # <<>>
    /\ res.op = "Close" /\ res.err = "ZlibChecksum"

(***************************************************************************)
(* C17.  A Read of a compressed reader returns a plain EOF only when       *)
(* Remaining is 0.  On a frame whose zlib stream ends before the declared  *)
(* number of bytes, the Read that meets the end of the stream, and every   *)
(* Read after it, returns ZlibPayloadUnderrun, with Remaining above 0.     *)
(***************************************************************************)
C17_ReadUnderrun ==
    /\ (res.op = "Read" /\ pr.kind = "zlib" /\ res.err = "EOF") => PayloadRemaining = 0
    /\ (res.op = "Read" /\ OnForgedZlib /\ HeadSend.good /\ ~skipped
          /\ HeadSend.declared > Len(HeadSend.b) /\ got = HeadSend.b)
       => (res.err = "ZlibPayloadUnderrun"
           /\ PayloadRemaining = HeadSend.declared - Len(HeadSend.b))

\* Read returned ZlibPayloadUnderrun with the one byte of a stream whose
\* frame declares two
C17_Witness ==
    /\ res.op = "Read" /\ OnForgedZlib /\ HeadSend.good
    /\ HeadSend.declared = 2 /\ Len(HeadSend.b) = 1 /\ got = HeadSend.b
    /\ res.err = "ZlibPayloadUnderrun" /\ PayloadRemaining = 1

(***************************************************************************)
(* Vocabulary of the claims on Skip, EOF and Remaining.                    *)
(***************************************************************************)
\* the length of the payload that the frame Send call e wrote carries for a
\* receiver under e's threshold: the whole frame with compression disabled,
\* the frame behind the 0 byte when 0 is declared, else the declared length
PayloadLenOf(e) ==
    IF e.thr < 0 THEN FrameLengthOf(e)
    ELSE IF DeclaredIn(e.bytes).v = 0 THEN FrameLengthOf(e) - 1
    ELSE DeclaredIn(e.bytes).v

\* the caller holds the reader Recv issued for the frame a successful Send
\* call wrote, and has not used Skip on it
OnSentFrame == AtHead /\ HeadSend.ok /\ pr.kind # "none" /\ ~skipped

(***************************************************************************)
(* C18.  After any k bytes of the payload of a frame that Send wrote were  *)
(* read, the payload being L bytes long, Skip returns L - k and no error   *)
(* and leaves Remaining at 0, for a plain and for a compressed reader; the *)
(* Close that follows the Skip returns nil.                                *)
(***************************************************************************)
C18_SkipRest ==
    [][/\ (Skip /\ OnSentFrame) =>
             /\ res'.n = PayloadLenOf(HeadSend) - Len(got)
             /\ res'.err = "nil"
             /\ PayloadRemaining' = 0
       /\ (Close /\ AtHead /\ HeadSend.ok /\ res.op = "Skip") => res'.err = "nil"]_vars

\* Close returned nil after one byte of a compressed two-byte payload was
\* read and Skip returned 1
C18_Witness ==
    /\ ClosedNil /\ AtHead /\ HeadSend.ok
    /\ Compressed(HeadSend) /\ Len(HeadSend.b) = 2
    /\ Len(got) = 1 /\ skipped

\* a call of Read on the reader the caller holds
ReadCall == \E k \in BufSizes : \E n \in 1..k : Read(k, n)

\* the last call was a Read that returned EOF
ReadEOF == res.op = "Read" /\ res.err = "EOF"

\* an EOF comes only when no payload byte is left, and on the frame of a
\* successful Send, read without Skip, when the whole payload was delivered
EOFAfterLastByte ==
    ReadEOF =>
    /\ PayloadRemaining = 0
    /\ OnSentFrame => Len(got) = PayloadLenOf(HeadSend)

C20_RemainingCountsPayload ==
    OnSentFrame =>
    /\ PayloadRemaining = PayloadLenOf(HeadSend) - Len(got)
    /\ RecvIssued => PayloadRemaining = PayloadLenOf(HeadSend)
    /\ Compressed(HeadSend) /\ HeadSend.b # <<>> =>
          (pr.kind = "zlib" /\ PayloadRemaining = Len(HeadSend.b) - Len(got))

\* one of two bytes of a compressed payload was read: one payload byte
\* remains, and of the frame the zlib reader has consumed all but the last
\* byte
C20_Witness ==
    /\ OnSentFrame /\ Compressed(HeadSend) /\ Len(HeadSend.b) = 2
    /\ res.op = "Read" /\ Len(got) = 1
    /\ PayloadRemaining = 1
    /\ hcons = Len(HeadSend.bytes) - 1

(***************************************************************************)
(* The frame reader on its own, over a source that may return fewer bytes  *)
(* than asked for, end, or fail (frame.go).  wire is what the source still *)
(* has to deliver, remaining is FrameReader.remaining, res what the last   *)
(* call returned (res.src: what the source reported to it).                *)
(***************************************************************************)
\* longest piece of stream the source is given at a time
MaxFeed == 3
\* the source is given no more once this many bytes were consumed since the
\* last Next that returned a frame length
MaxStray == 4

\* what a call of the source returns beside its bytes
SourceErrors == {"nil", "EOF", "SrcErr"}

\* the pieces of stream the source is given: length prefixes 1 and 2, the
\* two-byte prefix 81 00 of length 1, the invalid length 0, payload bytes
SourceStreams ==
    { s \in SeqsUpTo({0, 1, 2, 129}, MaxFeed) :
        /\ s # <<>>
        /\ \A i \in 1..Len(s) : s[i] = 129 => (i = Len(s) \/ s[i + 1] = 0) }

\* an io.Reader that holds w can return m bytes together with e: no bytes and
\* no error is not returned, and EOF comes with or behind its last byte
SourceReturns(w, m, e) ==
    /\ m <= Len(w)
    /\ e = "nil" => m > 0
    /\ e = "EOF" => m = Len(w)

\* the source is called only while rem > 0; e is "nil" when it is not called
SourceCalled(rem, e, returns) == IF rem > 0 THEN returns ELSE e = "nil"

\* variant of FrameReadSrc: the buffer is not cut down to remaining
FrameReadSrcUncapped(w, rem, k, n, e) ==
    IF rem <= 0
    THEN [data |-> <<>>, err |-> "EOF", wire |-> w, remaining |-> rem]
    ELSE LET m    == Min(n, Min(k, Len(w)))
             rem2 == rem - m
         IN  [data      |-> Take(w, m),
              err       |-> IF e = "EOF" /\ rem2 > 0 THEN "UnexpectedEOF" ELSE e,
              wire      |-> Drop(w, m),
              remaining |-> rem2]

\* variant of FrameReadSrc: the EOF of the source is passed on as it is
FrameReadSrcPassesEOF(w, rem, k, n, e) ==
    IF rem <= 0
    THEN [data |-> <<>>, err |-> "EOF", wire |-> w, remaining |-> rem]
    ELSE LET m    == Min(n, Min(Min(k, rem), Len(w)))
             rem2 == rem - m
         IN  [data      |-> Take(w, m),
              err       |-> e,
              wire      |-> Drop(w, m),
              remaining |-> rem2]

\* Read(p) with len(p) = k, src.Read returning at most n bytes and e
FrameReadSrc(w, rem, k, n, e) ==
    IF rem <= 0
    THEN [data |-> <<>>, err |-> "EOF", wire |-> w, remaining |-> rem]
    ELSE LET m    == Min(n, Min(Min(k, rem), Len(w)))
             rem2 == rem - m
         IN  [data      |-> Take(w, m),
              err       |-> IF e = "EOF" /\ rem2 > 0 THEN "UnexpectedEOF" ELSE e,
              wire      |-> Drop(w, m),
              remaining |-> rem2]

\* variant of FrameReadByteSrc: on the byte-wise path remaining is
\* decreased whatever the source returned, and its EOF is passed on
FrameReadByteSrcUncounted(w, rem, byteReader, e) ==
    IF ~byteReader THEN FrameReadSrc(w, rem, 1, 1, e)
    ELSE IF rem <= 0
    THEN [data |-> <<>>, err |-> "EOF", wire |-> w, remaining |-> rem]
    ELSE IF e = "nil"
    THEN [data |-> Take(w, 1), err |-> "nil", wire |-> Drop(w, 1), remaining |-> rem - 1]
    ELSE [data |-> <<>>, err |-> e, wire |-> w, remaining |-> rem - 1]

\* ReadByte() on a source with ReadByte of its own (byteReader), which
\* returns a byte or e, or else through Read with a one-byte buffer
FrameReadByteSrc(w, rem, byteReader, e) ==
    IF ~byteReader THEN FrameReadSrc(w, rem, 1, 1, e)
    ELSE IF rem <= 0
    THEN [data |-> <<>>, err |-> "EOF", wire |-> w, remaining |-> rem]
    ELSE IF e = "nil"
    THEN [data |-> Take(w, 1), err |-> "nil", wire |-> Drop(w, 1), remaining |-> rem - 1]
    ELSE [data |-> <<>>, err |-> IF e = "EOF" THEN "UnexpectedEOF" ELSE e,
          wire |-> w, remaining |-> rem]

\* Skip(): the copy through Read ends when rem bytes are gone, or after j
\* bytes with the error e of the source
FrameSkipSrc(w, rem, j, e) ==
    IF rem <= 0
    THEN [n |-> 0, err |-> "nil", wire |-> w, remaining |-> rem]
    ELSE LET m == Min(j, Min(rem, Len(w)))
         IN  [n         |-> m,
              err       |-> IF m = rem THEN "nil"
                            ELSE IF e = "EOF" THEN "UnexpectedEOF" ELSE e,
              wire      |-> Drop(w, m),
              remaining |-> rem - m]

\* Next(): as FrameNext, the source failing at once when e is its error
FrameNextSrc(w, rem, e) ==
    IF rem <= 0 /\ e = "SrcErr"
    THEN [length |-> 0, n |-> 0, err |-> "SrcErr", wire |-> w, remaining |-> rem]
    ELSE FrameNext(w, rem)

\* the source receives the piece s
SourceFeed(s) ==
    /\ wire = <<>>
    /\ fhist.all < MaxStray
    /\ wire' = s
    /\ UNCHANGED << sinkBroken, cfg, compressionThreshold, remaining, pr, zr, res, got,
                    skipped, frame, fcons, inflight, hcons, fhist, codec, bufr, rt, mx >>

\* a call on the frame reader returned: the source is left as w2, the
\* counter as rem2
FrameReaderReturn(op, e, err, n, w2, rem2, counted) ==
    /\ wire' = w2
    /\ remaining' = rem2
    /\ res' = [op |-> op, err |-> err, n |-> n, src |-> e]
    /\ fhist' =
          IF op = "Next" /\ err = "nil"
          THEN [frameLength |-> n, all |-> 0, payload |-> 0]
          ELSE [fhist EXCEPT !.all = @ + Consumed(w2),
                             !.payload = @ + (IF counted THEN Consumed(w2) ELSE 0)]
    /\ UNCHANGED << sinkBroken, cfg, compressionThreshold, pr, zr, got, skipped, frame,
                    fcons, inflight, hcons, codec, bufr, rt, mx >>

FrameReaderNextReturn(e, nx) ==
    FrameReaderReturn("Next", e, nx.err, nx.length, nx.wire, nx.remaining, FALSE)

\* f.Next()
FrameReaderNext(e) ==
    /\ e \in {"nil", "SrcErr"}
    /\ remaining > 0 => e = "nil"
    /\ FrameReaderNextReturn(e, FrameNextSrc(wire, remaining, e))

FrameReaderReadReturn(op, e, r) ==
    FrameReaderReturn(op, e, r.err, Len(r.data), r.wire, r.remaining, TRUE)

\* f.Read(p) with len(p) = k
FrameReaderRead(k, n, e) ==
    /\ SourceCalled(remaining, e, SourceReturns(wire, Min(n, Min(k, remaining)), e))
    /\ FrameReaderReadReturn("Read", e, FrameReadSrc(wire, remaining, k, n, e))

\* f.ReadByte()
FrameReaderReadByte(byteReader, e) ==
    /\ SourceCalled(remaining, e,
                    SourceReturns(wire, IF e = "nil" \/ ~byteReader THEN 1 ELSE 0, e))
    /\ FrameReaderReadReturn("ReadByte", e, FrameReadByteSrc(wire, remaining, byteReader, e))

FrameReaderSkipReturn(e, r) ==
    FrameReaderReturn("Skip", e, r.err, r.n, r.wire, r.remaining, TRUE)

\* f.Skip()
FrameReaderSkip(j, e) ==
    /\ j <= Len(wire)
    /\ SourceCalled(remaining, e, (e = "nil" => j >= remaining) /\ (e = "EOF" => j = Len(wire)))
    /\ FrameReaderSkipReturn(e, FrameSkipSrc(wire, remaining, j, e))

NextSource ==
    \/ \E s \in SourceStreams : SourceFeed(s)
    \/ \E e \in SourceErrors : FrameReaderNext(e)
    \/ \E k \in BufSizes : \E n \in 1..k : \E e \in SourceErrors : FrameReaderRead(k, n, e)
    \/ \E byteReader \in BOOLEAN : \E e \in SourceErrors : FrameReaderReadByte(byteReader, e)
    \/ \E j \in 0..MaxFeed : \E e \in SourceErrors : FrameReaderSkip(j, e)

SpecSource == Init /\ [][NextSource]_vars

(***************************************************************************)
(* C21 as stated.  remaining is never negative, and the bytes consumed     *)
(* from the source since the last Next that returned a frame length are    *)
(* frameLength - remaining.                                                *)
(***************************************************************************)
C21_ConsumedSinceNext ==
    /\ remaining >= 0
    /\ fhist.frameLength > 0 => fhist.all = fhist.frameLength - remaining

(***************************************************************************)
(* C21.  remaining is never negative, and the bytes that Read, ReadByte    *)
(* and Skip have consumed from the source since the last Next that         *)
(* returned a frame length are frameLength - remaining, whatever the       *)
(* source returned to them: no such call consumes a byte beyond the frame. *)
(***************************************************************************)
C21_PayloadConsumedSinceNext ==
    /\ remaining >= 0
    /\ fhist.payload = fhist.frameLength - remaining
    /\ fhist.payload <= fhist.frameLength

\* a Read was cut short by an error of the source with one byte of a
\* two-byte frame consumed and bytes of the next frame waiting in the source
C21_Witness ==
    /\ res.op = "Read" /\ res.src = "SrcErr" /\ res.n = 1
    /\ fhist.frameLength = 2 /\ fhist.payload = 1 /\ remaining = 1
    /\ Len(wire) > 1

(***************************************************************************)
(* C22.  A Recv, and so the Next it begins with, that is called while the  *)
(* current frame has remaining > 0 fails with NotExhausted, consumes no    *)
(* byte from the source and leaves remaining unchanged.                    *)
(***************************************************************************)
C22_NextRefusedWhileUnread ==
    [][(Recv /\ remaining > 0) =>
         /\ res'.err = "NotExhausted"
         /\ wire' = wire
         /\ remaining' = remaining]_vars

\* Recv was refused inside a frame with bytes of it waiting in the source
C22_Witness ==
    /\ res.op = "Recv" /\ res.err = "NotExhausted"
    /\ remaining > 0 /\ wire # <<>>

(***************************************************************************)
(* C23.  When the source reports EOF to Read or ReadByte and remaining is  *)
(* above 0 after the call, the call returns UnexpectedEOF; Read and        *)
(* ReadByte return a plain EOF only when remaining is 0.                   *)
(***************************************************************************)
C23_EOFUpgraded ==
    res.op \in {"Read", "ReadByte"} =>
    /\ (res.src = "EOF" /\ remaining > 0) => res.err = "UnexpectedEOF"
    /\ res.err = "EOF" => remaining = 0

\* the source ended behind the first byte of a two-byte frame: the Read
\* returned that byte and UnexpectedEOF
C23_Witness ==
    /\ res.op = "Read" /\ res.src = "EOF" /\ res.n = 1
    /\ fhist.frameLength = 2 /\ remaining = 1
    /\ res.err = "UnexpectedEOF"

\* ReadByte found the source at its end inside a frame
C23_WitnessReadByte ==
    /\ res.op = "ReadByte" /\ res.src = "EOF" /\ remaining > 0
    /\ res.err = "UnexpectedEOF"

(***************************************************************************)
(* The field codecs on their own (packet/fields.go).  codec is one writer  *)
(* and the reader over what it wrote: codec.val is the value written last, *)
(* codec.enc its bytes, codec.buf what the reader can still deliver,       *)
(* codec.kind the type of the value that begins at the reader's cursor     *)
(* ("raw" for bytes that no Write produced, "none" once something was      *)
(* read).  A read records the bytes it started from (src), the kind found  *)
(* there (from), what it returned (out, err) and how far it moved (n).     *)
(***************************************************************************)
\* longest String and PrefixedArray written element by element
MaxText == 2
\* bytes written behind a value before it is read back
MaxTail == 1
\* longest byte string handed to a reader without a Write
MaxRaw == 6

MinInt32 == (0 - 2147483647) - 1

\* values WriteVarInt is called with: the ends of every encoded length
VarInts ==
    { 0, 1, 127, 128, 255, 16383, 16384, 2097151, 2097152, 268435455,
      268435456, 2147483647, 0 - 1, 0 - 128, 0 - 2147483647, MinInt32 }

TextBytes == {65, 200}

\* a value of 128 bytes: its length prefix takes two bytes
LongText == [i \in 1..128 |-> 65]

\* the strings (as their bytes) and byte arrays that are written
Texts == SeqsUpTo(TextBytes, MaxText) \cup { LongText }

\* Optional[byte]: absent (whatever Item holds) and present
Optionals ==
    { [Exists |-> FALSE, Item |-> b] : b \in {0, 65} }
        \cup { [Exists |-> TRUE, Item |-> b] : b \in {0, 1, 65, 255} }

Pow25 == 32 * 1024 * 1024

\* coordinates at the ends of the signed 26-bit and 12-bit ranges
Coords26 == { 0 - Pow25, 0 - 2, 0 - 1, 0, 1, Pow25 - 1 }

Coords12 == { 0 - 2048, 0 - 1, 0, 1, 2047 }

Positions == { [X |-> x, Y |-> y, Z |-> z] : x \in Coords26, y \in Coords12, z \in { 0 - Pow25, 0 - 1, 0, 5, Pow25 - 1 } }

TailBytes == {0, 255}

\* byte strings no Write produced: terminating bytes 0, 1 and 15 (the last
\* sets the sign bit as a fifth byte) and the continuation byte 255
RawStreams == SeqsUpTo({0, 1, 15, 255}, MaxRaw)

\* the reader a decoder is given: any io.Reader, or a *bufio.Reader
ReaderKinds == {"plain", "bufio"}

\* WriteString: the byte length as a VarInt, then the bytes
WriteString(v) == WriteVarInt(Len(v)) \o v

\* WritePrefixedArray(w, v, WriteByte): the count as a VarInt, then each item
WritePrefixedArray(v) == WriteVarInt(Len(v)) \o v

\* WriteBoolean
WriteBoolean(v) == IF v THEN << 1 >> ELSE << 0 >>

\* variant of WriteOptional: the item is written whether it exists or not
WriteOptionalAlwaysItem(v) == WriteBoolean(v.Exists) \o << v.Item >>

\* WriteOptional(w, v, WriteByte): the item follows only when it exists
WriteOptional(v) == IF v.Exists THEN WriteBoolean(v.Exists) \o << v.Item >> ELSE WriteBoolean(v.Exists)

\* WritePosition: packed = (X & 0x3FFFFFF) << 38 | (Z & 0x3FFFFFF) << 12 |
\* (Y & 0xFFF), written big-endian.  xf, zf, yf are the masked fields; the
\* eight bytes are cut from them so that no number beyond 32 bits is formed.
WritePosition(v) ==
    LET xf == v.X % (2 * Pow25)
        zf == v.Z % (2 * Pow25)
        yf == v.Y % 4096
    IN  << xf \div (256 * 1024),
           (xf \div 1024) % 256,
           (xf \div 4) % 256,
           (xf % 4) * 64 + zf \div (1024 * 1024),
           (zf \div 4096) % 256,
           (zf \div 16) % 256,
           (zf % 16) * 16 + yf \div 256,
           yf % 256 >>

\* readN(r, n) over the bytes s the reader can still deliver: the bytes, how
\* many were consumed, the error.  A *bufio.Reader whose buffer (16 bytes
\* here, the smallest bufio allows) holds n is peeked and then discarded: a
\* short Peek returns with EOF and consumes nothing.  Any other reader goes
\* through io.ReadFull, which consumes what there is and reports EOF when
\* there was nothing and UnexpectedEOF when there was too little.  (On a
\* failure v holds the bytes delivered; the zero bytes that pad it to n in
\* the ReadFull case are left out.)
readN(s, n, rk) ==
    IF Len(s) >= n THEN [v |-> Take(s, n), n |-> n, err |-> "nil"]
    ELSE IF rk = "bufio" /\ n <= 16 THEN [v |-> s, n |-> 0, err |-> "EOF"]
    ELSE [v |-> s, n |-> Len(s), err |-> IF s = <<>> THEN "EOF" ELSE "UnexpectedEOF"]

\* variant of ReadStringContent: the error of readN is passed on as it is
ReadStringContentPlainEOF(s, lenN, l, rk) ==
    LET c == readN(s, l, rk)
    IN  [out |-> c.v, n |-> lenN + c.n, err |-> c.err]

\* ReadString behind its length prefix l (lenN bytes long)
ReadStringContent(s, lenN, l, rk) ==
    LET c == readN(s, l, rk)
    IN  [out |-> c.v, n |-> lenN + c.n,
         err |-> IF c.err = "EOF" THEN "UnexpectedEOF" ELSE c.err]

\* ReadString
ReadString(s, rk) ==
    LET l == ReadVarInt(s)
    IN  IF l.err # "nil" THEN [out |-> <<>>, n |-> l.n, err |-> l.err]
        ELSE IF l.v < 0 THEN [out |-> <<>>, n |-> l.n, err |-> "NegativeLength"]
        ELSE ReadStringContent(Drop(s, l.n), l.n, l.v, rk)

\* ReadPrefixedArray(r, ReadByte): v = make([]T, length) panics for a
\* negative length; otherwise length items are read, and an end of the
\* source before the last of them is UnexpectedEOF.  (On a failure out
\* holds the items read.)
ReadPrefixedArray(s) ==
    LET l == ReadVarInt(s)
        items == Drop(s, l.n)
    IN  IF l.err # "nil" THEN [out |-> <<>>, n |-> l.n, err |-> l.err]
        ELSE IF l.v < 0 THEN [out |-> <<>>, n |-> l.n, err |-> "panic"]
        ELSE IF Len(items) >= l.v THEN [out |-> Take(items, l.v), n |-> l.n + l.v, err |-> "nil"]
        ELSE [out |-> items, n |-> Len(s), err |-> "UnexpectedEOF"]

\* ReadOptional(r, ReadByte): ReadBoolean passes the reader's error on and
\* rejects a byte other than 0 and 1; the item's EOF becomes UnexpectedEOF
ReadOptional(s) ==
    IF s = <<>> THEN [out |-> [Exists |-> FALSE, Item |-> 0], n |-> 0, err |-> "EOF"]
    ELSE IF s[1] = 0 THEN [out |-> [Exists |-> FALSE, Item |-> 0], n |-> 1, err |-> "nil"]
    ELSE IF s[1] # 1 THEN [out |-> [Exists |-> FALSE, Item |-> 0], n |-> 1, err |-> "InvalidBoolean"]
    ELSE IF Len(s) = 1 THEN [out |-> [Exists |-> TRUE, Item |-> 0], n |-> 1, err |-> "UnexpectedEOF"]
    ELSE [out |-> [Exists |-> TRUE, Item |-> s[2]], n |-> 2, err |-> "nil"]

\* the fields of ReadPosition out of the eight bytes b: each is the masked
\* field itself, X = int32((packed >> 38) & 0x3FFFFFF), Z = int32((packed >>
\* 12) & 0x3FFFFFF), Y = int16(packed & 0xFFF); no bit is extended
UnpackPosition(b) ==
    [X |-> b[1] * (256 * 1024) + b[2] * 1024 + b[3] * 4 + b[4] \div 64,
     Z |-> (b[4] % 64) * (1024 * 1024) + b[5] * 4096 + b[6] * 16 + b[7] \div 16,
     Y |-> (b[7] % 16) * 256 + b[8]]

\* ReadPosition
ReadPosition(s, rk) ==
    LET c == readN(s, 8, rk)
    IN  IF c.err # "nil" THEN [out |-> [X |-> 0, Y |-> 0, Z |-> 0], n |-> c.n, err |-> c.err]
        ELSE [out |-> UnpackPosition(c.v), n |-> c.n, err |-> "nil"]

\* nothing was written yet and no reader was made
CodecFresh == codec = NoCodec

\* a Write into a fresh writer: the reader that is handed its bytes stands
\* at the start of the value
CodecWritten(op, kind, v, enc) ==
    /\ codec' = [op |-> op, kind |-> kind, val |-> v, enc |-> enc, buf |-> enc,
                 src |-> <<>>, from |-> "none", out |-> <<>>, err |-> "nil", n |-> Len(enc)]
    /\ UNCHANGED << transport, fhist, bufr, rt, mx >>

CodecWriteVarInt ==
    CodecFresh /\ \E v \in VarInts : CodecWritten("WriteVarInt", "VarInt", v, WriteVarInt(v))

CodecWriteString ==
    CodecFresh /\ \E v \in Texts : CodecWritten("WriteString", "String", v, WriteString(v))

CodecWritePrefixedArray ==
    CodecFresh /\ \E v \in Texts : CodecWritten("WritePrefixedArray", "PrefixedArray", v, WritePrefixedArray(v))

CodecWriteOptional ==
    CodecFresh /\ \E v \in Optionals : CodecWritten("WriteOptional", "Optional", v, WriteOptional(v))

CodecWritePosition ==
    CodecFresh /\ \E v \in Positions : CodecWritten("WritePosition", "Position", v, WritePosition(v))

\* WriteByte behind a value that was written and not yet read
CodecWriteByte(b) ==
    /\ codec.op # "none"
    /\ codec.kind \notin {"none", "raw"}
    /\ Len(codec.buf) < Len(codec.enc) + MaxTail
    /\ codec' = [codec EXCEPT !.op = "WriteByte", !.buf = Append(codec.buf, b), !.n = 1]
    /\ UNCHANGED << transport, fhist, bufr, rt, mx >>

\* a reader over bytes that no Write of this package produced
CodecSourced(s) ==
    /\ codec' = [op |-> "Source", kind |-> "raw", val |-> <<>>, enc |-> <<>>, buf |-> s,
                 src |-> <<>>, from |-> "none", out |-> <<>>, err |-> "nil", n |-> 0]
    /\ UNCHANGED << transport, fhist, bufr, rt, mx >>

CodecSource == CodecFresh /\ \E s \in RawStreams : CodecSourced(s)

\* a Read from the reader's cursor that returned r
CodecRead(op, r) ==
    /\ codec' = [codec EXCEPT !.op = op, !.kind = "none", !.src = codec.buf,
                              !.from = codec.kind, !.buf = Drop(codec.buf, r.n),
                              !.out = r.out, !.err = r.err, !.n = r.n]
    /\ UNCHANGED << transport, fhist, bufr, rt, mx >>

\* the reader holds something that nothing was read from yet
CodecReadable == codec.op # "none" /\ codec.kind # "none"

CodecReadVarIntReturn(r) == CodecRead("ReadVarInt", [out |-> r.v, n |-> r.n, err |-> r.err])

CodecReadVarInt == CodecReadable /\ CodecReadVarIntReturn(ReadVarInt(codec.buf))

CodecReadString(rk) == CodecReadable /\ CodecRead("ReadString", ReadString(codec.buf, rk))

CodecReadPrefixedArray == CodecReadable /\ CodecRead("ReadPrefixedArray", ReadPrefixedArray(codec.buf))

CodecReadOptional == CodecReadable /\ CodecRead("ReadOptional", ReadOptional(codec.buf))

CodecReadPosition(rk) == CodecReadable /\ CodecRead("ReadPosition", ReadPosition(codec.buf, rk))

NextCodec ==
    \/ CodecWriteVarInt
    \/ CodecWriteString
    \/ CodecWritePrefixedArray
    \/ CodecWriteOptional
    \/ CodecWritePosition
    \/ \E b \in TailBytes : CodecWriteByte(b)
    \/ CodecSource
    \/ CodecReadVarInt
    \/ \E rk \in ReaderKinds : CodecReadString(rk)
    \/ CodecReadPrefixedArray
    \/ CodecReadOptional
    \/ \E rk \in ReaderKinds : CodecReadPosition(rk)

SpecCodec == Init /\ [][NextCodec]_vars

\* C24: for every int32 value v that was written (0, 127, 128, 2147483647,
\* -1, -2147483648 among them) WriteVarInt produced between one and five
\* bytes of which exactly the last has its continuation bit clear, and
\* ReadVarInt from the start of those bytes returns v without an error and
\* consumes exactly those bytes, whatever follows them
C24_VarIntRoundTrip ==
    /\ (codec.op # "none" /\ (codec.kind = "VarInt" \/ codec.from = "VarInt")) =>
          /\ Len(codec.enc) \in 1..5
          /\ \A i \in 1..Len(codec.enc) : (codec.enc[i] < 128) <=> (i = Len(codec.enc))
    /\ (codec.op = "ReadVarInt" /\ codec.from = "VarInt") =>
          /\ codec.err = "nil"
          /\ codec.out = codec.val
          /\ codec.n = Len(codec.enc)
          /\ codec.buf = Drop(codec.src, Len(codec.enc))

\* the smallest int32 was written in five bytes, a byte was written behind
\* it, and ReadVarInt returned the value and left that byte
C24_Witness ==
    /\ codec.op = "ReadVarInt" /\ codec.from = "VarInt"
    /\ codec.val = MinInt32 /\ codec.out = MinInt32
    /\ codec.n = 5 /\ Len(codec.buf) = 1

\* 2147483647 was written and read back
C24_WitnessMax ==
    /\ codec.op = "ReadVarInt" /\ codec.from = "VarInt"
    /\ codec.val = 2147483647 /\ codec.out = 2147483647 /\ codec.n = 5

\* the first five bytes of s all have the continuation bit set
FiveContinue(s) == Len(s) >= 5 /\ \A i \in 1..5 : s[i] >= 128

\* s ends after at least one continuation byte, before a terminating byte
\* and before a fifth byte
EndsInsideVarInt(s) == Len(s) \in 1..4 /\ \A i \in 1..Len(s) : s[i] >= 128

\* C25: ReadVarInt returns VarIntTooLong exactly when the first five bytes
\* at the reader's cursor all have the continuation bit set, and it then has
\* consumed those five bytes and no sixth; it returns UnexpectedEOF when the
\* source ends after one to four continuation bytes
C25_VarIntTooLongAndEOF ==
    codec.op = "ReadVarInt" =>
    /\ codec.err = "VarIntTooLong" <=> FiveContinue(codec.src)
    /\ FiveContinue(codec.src) => (codec.n = 5 /\ codec.buf = Drop(codec.src, 5))
    /\ EndsInsideVarInt(codec.src) => (codec.err = "UnexpectedEOF" /\ codec.buf = <<>>)

\* six continuation bytes: VarIntTooLong, and the sixth is still unread
C25_Witness ==
    /\ codec.op = "ReadVarInt" /\ codec.err = "VarIntTooLong"
    /\ codec.src = << 255, 255, 255, 255, 255, 255 >> /\ codec.buf = << 255 >>

\* the source ends behind two continuation bytes
C25_WitnessEOF ==
    /\ codec.op = "ReadVarInt" /\ codec.err = "UnexpectedEOF"
    /\ codec.src = << 255, 255 >>

\* the length or count prefix at the start of s, when it decodes
PrefixOf(s) == ReadVarInt(s)

\* s begins with a prefix that decodes to a negative number
NegativePrefix(s) == PrefixOf(s).err = "nil" /\ PrefixOf(s).v < 0

\* s begins with a prefix that declares more bytes than follow it
ShortContent(s) ==
    /\ PrefixOf(s).err = "nil"
    /\ PrefixOf(s).v >= 0
    /\ Len(s) - PrefixOf(s).n < PrefixOf(s).v

\* C26: ReadString returns NegativeLength when its length prefix decodes to
\* a negative number, having consumed the prefix and no content byte, and
\* UnexpectedEOF when fewer content bytes follow the prefix than it declares,
\* also when none follows
C26_ReadStringErrors ==
    codec.op = "ReadString" =>
    /\ NegativePrefix(codec.src) =>
          /\ codec.err = "NegativeLength"
          /\ codec.buf = Drop(codec.src, PrefixOf(codec.src).n)
    /\ ShortContent(codec.src) => codec.err = "UnexpectedEOF"

\* the prefix ff ff ff ff 0f (-1) with a byte behind it, which stays unread
C26_Witness ==
    /\ codec.op = "ReadString" /\ codec.err = "NegativeLength"
    /\ codec.src = << 255, 255, 255, 255, 15, 1 >> /\ codec.buf = << 1 >>

\* a prefix of 1 with nothing behind it
C26_WitnessNoContent ==
    /\ codec.op = "ReadString" /\ codec.err = "UnexpectedEOF"
    /\ codec.src = << 1 >>

\* a prefix that declares more than the source holds
C26_WitnessShort ==
    /\ codec.op = "ReadString" /\ codec.err = "UnexpectedEOF"
    /\ codec.src = << 15, 1, 0 >>

\* C27: ReadPrefixedArray returns NegativeLength when its count prefix
\* decodes to a negative number: it does not panic, and it has consumed the
\* prefix and no element
C27_NegativeCountRefused ==
    (codec.op = "ReadPrefixedArray" /\ NegativePrefix(codec.src)) =>
    /\ codec.err = "NegativeLength"
    /\ codec.buf = Drop(codec.src, PrefixOf(codec.src).n)

\* a read of the value that was written, from the start of its encoding
ReadBack(op, kind) == codec.op = op /\ codec.from = kind

\* the read succeeded and moved the reader over the encoding, no less and
\* no more
AdvancedByEncoding ==
    /\ codec.err = "nil"
    /\ codec.n = Len(codec.enc)
    /\ codec.buf = Drop(codec.src, Len(codec.enc))

\* two Optionals are the same value: both absent, or both present with the
\* same item (the Item field of an absent Optional is not part of the value)
SameOptional(a, b) == a.Exists = b.Exists /\ (a.Exists => a.Item = b.Item)

\* C28: a String, a PrefixedArray of Byte and an Optional of Byte that were
\* written are read back as the value written, and the read moves the
\* reader by exactly the length of the encoding, whatever follows it; an
\* absent Optional is encoded in exactly one byte
C28_FieldRoundTrip ==
    /\ ReadBack("ReadString", "String") => (AdvancedByEncoding /\ codec.out = codec.val)
    /\ ReadBack("ReadPrefixedArray", "PrefixedArray") => (AdvancedByEncoding /\ codec.out = codec.val)
    /\ ReadBack("ReadOptional", "Optional") => (AdvancedByEncoding /\ SameOptional(codec.out, codec.val))
    /\ (codec.op # "none" /\ (codec.kind = "Optional" \/ codec.from = "Optional") /\ ~codec.val.Exists) =>
          Len(codec.enc) = 1

\* a two-byte String with a byte written behind it was read back
C28_Witness ==
    /\ ReadBack("ReadString", "String")
    /\ codec.val = << 65, 200 >> /\ codec.out = << 65, 200 >>
    /\ codec.n = 3 /\ Len(codec.buf) = 1

\* the String of 128 bytes (two-byte prefix) was read back
C28_WitnessLong ==
    /\ ReadBack("ReadString", "String")
    /\ Len(codec.val) = 128 /\ codec.n = 130 /\ codec.err = "nil"

\* an array was read back
C28_WitnessArray ==
    /\ ReadBack("ReadPrefixedArray", "PrefixedArray")
    /\ codec.val = << 200, 65 >> /\ codec.out = << 200, 65 >> /\ Len(codec.buf) = 1

\* an absent Optional was read back from its one byte, the byte behind it
\* left unread
C28_WitnessAbsent ==
    /\ ReadBack("ReadOptional", "Optional")
    /\ ~codec.val.Exists /\ ~codec.out.Exists
    /\ codec.n = 1 /\ Len(codec.buf) = 1

\* a present Optional was read back
C28_WitnessPresent ==
    /\ ReadBack("ReadOptional", "Optional")
    /\ codec.val.Exists /\ codec.out = [Exists |-> TRUE, Item |-> 255] /\ codec.n = 2

\* C29: a Position with X and Z in [-2^25, 2^25 - 1] and Y in [-2^11,
\* 2^11 - 1], negative coordinates among them, that was written by
\* WritePosition is read back by ReadPosition as the same Position
C29_PositionRoundTrip ==
    ReadBack("ReadPosition", "Position") => (AdvancedByEncoding /\ codec.out = codec.val)

\* a Position without a negative coordinate that was written by
\* WritePosition is read back as the same Position from its eight bytes, and
\* a coordinate that was negative is read back without its sign: X and Z
\* raised by 2^26, Y by 2^12
C29_PositionUnsignedFields ==
    ReadBack("ReadPosition", "Position") =>
    /\ AdvancedByEncoding
    /\ Len(codec.enc) = 8
    /\ codec.out.X = (IF codec.val.X < 0 THEN codec.val.X + 2 * Pow25 ELSE codec.val.X)
    /\ codec.out.Z = (IF codec.val.Z < 0 THEN codec.val.Z + 2 * Pow25 ELSE codec.val.Z)
    /\ codec.out.Y = (IF codec.val.Y < 0 THEN codec.val.Y + 4096 ELSE codec.val.Y)

\* the packed form: X in bits 63..38, Z in bits 37..12, Y in bits 11..0, as
\* two's-complement fields.  -1 / -1 / -1 is eight bytes ff, and X = -2^25
\* alone sets bit 63 only
C29_PackedFields ==
    (codec.op # "none" /\ (codec.kind = "Position" \/ codec.from = "Position")) =>
    /\ codec.val = [X |-> 0 - 1, Y |-> 0 - 1, Z |-> 0 - 1] => codec.enc = << 255, 255, 255, 255, 255, 255, 255, 255 >>
    /\ codec.val = [X |-> 0 - Pow25, Y |-> 0, Z |-> 0] => codec.enc = << 128, 0, 0, 0, 0, 0, 0, 0 >>
    /\ codec.val = [X |-> 1, Y |-> 0, Z |-> 0] => codec.enc = << 0, 0, 0, 64, 0, 0, 0, 0 >>
    /\ codec.val = [X |-> 0, Y |-> 0, Z |-> 0 - Pow25] => codec.enc = << 0, 0, 0, 32, 0, 0, 0, 0 >>
    /\ codec.val = [X |-> 0, Y |-> 0, Z |-> 5] => codec.enc = << 0, 0, 0, 0, 0, 0, 80, 0 >>
    /\ codec.val = [X |-> 0, Y |-> 0 - 2048, Z |-> 0] => codec.enc = << 0, 0, 0, 0, 0, 0, 8, 0 >>
    /\ codec.val = [X |-> 0, Y |-> 2047, Z |-> 0] => codec.enc = << 0, 0, 0, 0, 0, 0, 7, 255 >>

(***************************************************************************)
(* packet.BufferedReader on its own (packet/packet.go).  bufr.buf is b.buf *)
(* (bufr.len its length), bufr.r and bufr.w the cursors, bufr.data the     *)
(* bytes b.buf[r:w], bufr.err the sticky b.err, bufr.src what the source   *)
(* has to deliver and bufr.srcEnd the error it ends with.  A call records  *)
(* its request (n), what it returned (out, disc, ret), how often it read   *)
(* the source (reads); bufr.took are the bytes handed out or discarded so  *)
(* far, in order.                                                          *)
(***************************************************************************)
\* length of the source stream: the bytes 1, 2, ... in this order
MaxStream == 4
\* largest request
MaxReq == 5
defaultBufferSize == 512

\* len(buf) and maxSize the reader is constructed with; the constructor
\* takes any two numbers
BufferSizes == {0, 1, 4}

MaxSizes == {3, 4}

\* how the source cuts its stream during one call: the sizes of its reads,
\* taken in turn
Chunkings == { << 1, 2 >>, << 3, 1 >> }

\* how the source ends: the error, and whether it comes with the last bytes
\* or on the read after them
SourceEnds ==
    { [err |-> "EOF", endWith |-> FALSE], [err |-> "EOF", endWith |-> TRUE],
      [err |-> "SrcErr", endWith |-> FALSE] }

\* NewBufferedReaderSize(r, size, maxSize): buf = make([]byte, size)
NewBufferedReaderSize(size, maxSize, srcEnd) ==
    [op |-> "New", buf |-> [i \in 1..size |-> 0], len |-> size, maxSize |-> maxSize,
     r |-> 0, w |-> 0, data |-> <<>>,
     err |-> "nil", src |-> [i \in 1..MaxStream |-> i],
     srcEnd |-> srcEnd.err, endWith |-> srcEnd.endWith,
     n |-> 0, out |-> <<>>, disc |-> 0, ret |-> "nil", reads |-> 0, took |-> <<>>]

\* b.buf[b.r:b.w]
Live(b) == SubSeq(b.buf, b.r + 1, b.w)

\* copy(dst, src): as many elements as the shorter of the two has
copy(dst, src) == [i \in 1..Len(dst) |-> IF i <= Len(src) THEN src[i] ELSE dst[i]]

\* variant of fillCompact: the cursors are moved, the bytes are not
fillCompactCursorsOnly(b) ==
    IF b.r > 0
    THEN [b EXCEPT !.w = b.w - b.r, !.r = 0]
    ELSE b

\* the first half of fill: if b.r > 0 the unread part is copied to the start
\* of the buffer and the cursors are moved by b.r
fillCompact(b) ==
    IF b.r > 0
    THEN [b EXCEPT !.buf = copy(b.buf, Live(b)), !.w = b.w - b.r, !.r = 0]
    ELSE b

\* the second half of fill: unless the buffer is full the source is read
\* once into b.buf[b.w:].  The source returns at most c bytes, and its end
\* error either with its last bytes (b.endWith) or on the read after them.
fillRead(b, c) ==
    LET k == Min(Min(c, Len(b.buf) - b.w), Len(b.src))
    IN  IF b.w = Len(b.buf) THEN b
        ELSE IF b.src = <<>>
        THEN [b EXCEPT !.err = b.srcEnd, !.reads = @ + 1]
        ELSE [b EXCEPT !.buf = [i \in 1..Len(b.buf) |->
                                   IF i > b.w /\ i <= b.w + k THEN b.src[i - b.w] ELSE b.buf[i]],
                       !.w = b.w + k,
                       !.src = Drop(@, k),
                       !.err = IF b.endWith /\ k = Len(b.src) THEN b.srcEnd ELSE @,
                       !.reads = @ + 1]

\* fill
fill(b, c) == fillRead(fillCompact(b), c)

\* for newSize < need { newSize *= 2 }
RECURSIVE Doubled(_, _)
Doubled(newSize, need) == IF newSize < need THEN Doubled(newSize * 2, need) ELSE newSize

\* the size grow gives the buffer for a request of need bytes
NewSize(len, need, maxSize) ==
    LET d == Doubled(IF len = 0 THEN defaultBufferSize ELSE len, need)
    IN  IF maxSize > 0 /\ d > maxSize THEN maxSize ELSE d

\* grow(need), when need <= maxSize: the unread part is copied to the start
\* of a new buffer and the cursors are moved by b.r
grow(b, need) ==
    [b EXCEPT !.buf = copy([i \in 1..NewSize(Len(b.buf), need, b.maxSize) |-> 0], Live(b)),
              !.len = NewSize(Len(b.buf), need, b.maxSize),
              !.w = b.w - b.r, !.r = 0]

\* for b.w-b.r < n && b.err == nil { b.fill() }
RECURSIVE FillUntil(_, _, _)
FillUntil(b, n, ch) ==
    IF b.w - b.r < n /\ b.err = "nil"
    THEN FillUntil(fill(b, ch[1]), n, << ch[2], ch[1] >>)
    ELSE b

\* variant of viewFilled: the error of the source is returned as it is
viewFilledPlainEOF(b, n) ==
    IF b.w - b.r < n
    THEN [b EXCEPT !.ret = b.err]
    ELSE [b EXCEPT !.out = SubSeq(b.buf, b.r + 1, b.r + n)]

\* the end of view, once the buffer was filled as far as it could be:
\* b.buf[b.r : b.r+n], or the error
viewFilled(b, n) ==
    IF b.w - b.r < n
    THEN [b EXCEPT !.ret = IF b.err = "EOF" /\ b.w - b.r > 0 THEN "UnexpectedEOF" ELSE b.err]
    ELSE [b EXCEPT !.out = SubSeq(b.buf, b.r + 1, b.r + n)]

\* view(n), n >= 0: grow is called, and with it the only comparison with
\* maxSize made, when n is larger than the buffer
view(b, n, ch) ==
    LET called == [b EXCEPT !.n = n, !.out = <<>>, !.disc = 0, !.ret = "nil", !.reads = 0]
    IN  IF n = 0 THEN called
        ELSE IF n > Len(b.buf) /\ n > b.maxSize THEN [called EXCEPT !.ret = "ReadTooBig"]
        ELSE IF n > Len(b.buf) THEN viewFilled(FillUntil(grow(called, n), n, ch), n)
        ELSE viewFilled(FillUntil(called, n, ch), n)

\* variant of ReadViewed: b.r += n whether the view succeeded or not
ReadViewedAnyway(v) == [v EXCEPT !.r = @ + v.n, !.took = @ \o v.out]

\* Read and ReadByte behind their view v: b.r += n when it succeeded
ReadViewed(v) ==
    IF v.ret = "nil"
    THEN [v EXCEPT !.r = @ + v.n, !.took = @ \o v.out]
    ELSE v

\* Read(n)
BufferedRead(b, n, ch) == ReadViewed(view(b, n, ch))

\* variant of BufferedPeek: the view is consumed as Read consumes it
BufferedPeekAdvances(b, n, ch) == ReadViewed(view(b, n, ch))

\* Peek(n)
BufferedPeek(b, n, ch) == view(b, n, ch)

\* the loop of Discard: fill, then drop what is asked for or all there is.
\* A buffer of length 0 is always full, so fill never reads and the loop
\* never ends ("hang").
RECURSIVE DiscardLoop(_, _, _)
DiscardLoop(b, n, ch) ==
    IF ~(b.disc < n /\ b.err = "nil") THEN b
    ELSE IF Len(b.buf) = 0 THEN [b EXCEPT !.ret = "hang"]
    ELSE LET f    == fill(b, ch[1])
             more == n - f.disc
         IN  IF more <= f.w - f.r
             THEN DiscardLoop([f EXCEPT !.r = @ + more,
                                        !.took = @ \o SubSeq(f.buf, f.r + 1, f.r + more),
                                        !.disc = n],
                         n, << ch[2], ch[1] >>)
             ELSE DiscardLoop([f EXCEPT !.r = 0, !.w = 0,
                                        !.took = @ \o Live(f), !.disc = @ + (f.w - f.r)],
                         n, << ch[2], ch[1] >>)

\* the end of Discard: fewer than n discarded is the source's error
Discarded(b, n) ==
    IF b.disc < n /\ b.ret = "nil" THEN [b EXCEPT !.ret = b.err] ELSE b

\* Discard(n), n >= 0
BufferedDiscard(b, n, ch) ==
    LET called == [b EXCEPT !.n = n, !.out = <<>>, !.disc = 0, !.ret = "nil", !.reads = 0]
    IN  IF n = 0 THEN called
        ELSE IF b.w - b.r >= n
        THEN [called EXCEPT !.r = @ + n, !.took = @ \o SubSeq(b.buf, b.r + 1, b.r + n), !.disc = n]
        ELSE Discarded(DiscardLoop([called EXCEPT !.r = 0, !.w = 0,
                                                  !.took = @ \o Live(b), !.disc = b.w - b.r],
                                   n, ch), n)

\* a call on the reader returned: bufr is the reader behind it, bufr.data
\* the bytes its cursors enclose and bufr.len the length of its buffer
BufferedReaderReturn(op, b) ==
    /\ bufr' = [b EXCEPT !.op = op, !.data = Live(b), !.len = Len(b.buf)]
    /\ UNCHANGED << transport, fhist, codec, rt, mx >>

BufferedReaderNew(size, maxSize, srcEnd) ==
    /\ bufr = NoBufferedReader
    /\ BufferedReaderReturn("New", NewBufferedReaderSize(size, maxSize, srcEnd))

\* the reader exists and its last call came back
BufferedReaderIdle == bufr.op \notin {"none"} /\ bufr.ret # "hang"

BufferedReaderRead(n, ch) ==
    /\ BufferedReaderIdle
    /\ BufferedReaderReturn("Read", BufferedRead(bufr, n, ch))

BufferedReaderReadByte(ch) ==
    /\ BufferedReaderIdle
    /\ BufferedReaderReturn("ReadByte", BufferedRead(bufr, 1, ch))

BufferedReaderPeek(n, ch) ==
    /\ BufferedReaderIdle
    /\ BufferedReaderReturn("Peek", BufferedPeek(bufr, n, ch))

BufferedReaderDiscard(n, ch) ==
    /\ BufferedReaderIdle
    /\ BufferedReaderReturn("Discard", BufferedDiscard(bufr, n, ch))

NextBuffered ==
    \/ \E size \in BufferSizes : \E maxSize \in MaxSizes : \E srcEnd \in SourceEnds :
          BufferedReaderNew(size, maxSize, srcEnd)
    \/ \E n \in 0..MaxReq : \E ch \in Chunkings : BufferedReaderRead(n, ch)
    \/ \E ch \in Chunkings : BufferedReaderReadByte(ch)
    \/ \E n \in 0..MaxReq : \E ch \in Chunkings : BufferedReaderPeek(n, ch)
    \/ \E n \in 0..MaxReq : \E ch \in Chunkings : BufferedReaderDiscard(n, ch)

SpecBuffered == Init /\ [][NextBuffered]_vars

\* the cursors and the buffered bytes agree
BufferedShape ==
    bufr.op # "none" =>
    /\ bufr.w - bufr.r = Len(bufr.data)
    /\ bufr.r >= 0
    /\ bufr.w <= bufr.len

\* this step is a Read or a Peek of more than the configured maximum
TooBigRequested ==
    /\ bufr.op # "none"
    /\ bufr'.op \in {"Read", "Peek"}
    /\ bufr'.n > bufr.maxSize

\* the step returned ReadTooBig without a read of the source and left the
\* cursors, the buffer and the buffered bytes as they were
RefusedUntouched ==
    /\ bufr'.ret = "ReadTooBig"
    /\ bufr'.reads = 0 /\ bufr'.src = bufr.src
    /\ bufr'.r = bufr.r /\ bufr'.w = bufr.w
    /\ bufr'.len = bufr.len /\ bufr'.data = bufr.data

\* this step is a Read or a Peek within the maximum that changed the length
\* of the buffer
Grown ==
    /\ bufr.op # "none"
    /\ bufr'.op \in {"Read", "Peek"}
    /\ bufr'.n <= bufr.maxSize
    /\ bufr'.len # bufr.len

\* the new length is the old one (512 for an empty buffer) doubled until it
\* holds the request, or the maximum when that is less; it is not above the
\* maximum
GrownByDoubling ==
    /\ bufr'.len <= bufr.maxSize
    /\ bufr'.len >= bufr'.n
    /\ \/ bufr'.len = bufr.maxSize
       \/ \E k \in 0..10 :
             /\ bufr'.len = (IF bufr.len = 0 THEN defaultBufferSize ELSE bufr.len) * 2^k
             /\ k > 0 => bufr'.len < 2 * bufr'.n

\* C30: a Read(n) or Peek(n) with n above the configured maximum returns
\* ReadTooBig without reading the source and without changing the cursors
\* or the buffer; a Read or Peek within the maximum that grows the buffer
\* grows it by doubling, to a length not above the maximum
C30_ReadTooBigAndGrowth ==
    [][/\ TooBigRequested => RefusedUntouched
       /\ Grown => GrownByDoubling]_vars

\* the growth half alone: a request within the maximum that grows the
\* buffer grows it by doubling, to a length not above the maximum
C30_GrowthWithinMaximum == [][Grown => GrownByDoubling]_vars

\* the refusal as the code makes it: a request above both the maximum and
\* the length of the buffer returns ReadTooBig and touches nothing
C30_TooBigBeyondBuffer ==
    [][(TooBigRequested /\ bufr'.n > bufr.len) => RefusedUntouched]_vars

\* this step is a call of Peek
PeekStep == bufr.op # "none" /\ bufr'.op = "Peek"

\* this step is a Read(n) right behind a Peek(n) that succeeded
ReadBehindPeek ==
    /\ bufr.op = "Peek" /\ bufr.ret = "nil"
    /\ bufr'.op = "Read" /\ bufr'.n = bufr.n

\* C31: a Peek does not advance the read position: it hands out nothing,
\* keeps what was buffered at the front of the buffer and takes from the
\* source only what it appends to it.  After a successful Peek(n) at least n
\* bytes are buffered and the view is the first n of them; a Read(n) that
\* follows returns the same n bytes; and whatever Peeks came before it, a
\* successful Read(n) returns the n bytes of the stream behind those handed
\* out before
C31_PeekKeepsPosition ==
    [][/\ PeekStep =>
             /\ bufr'.took = bufr.took
             /\ IsPrefix(bufr.data, bufr'.data)
             /\ bufr'.data \o bufr'.src = bufr.data \o bufr.src
             /\ bufr'.ret = "nil" =>
                   /\ bufr'.w - bufr'.r >= bufr'.n
                   /\ bufr'.out = Take(bufr'.data, bufr'.n)
       /\ ReadBehindPeek => (bufr'.ret = "nil" /\ bufr'.out = bufr.out)
       /\ (bufr.op # "none" /\ bufr'.op = "Read" /\ bufr'.ret = "nil") =>
             bufr'.out = [i \in 1..bufr'.n |-> Len(bufr.took) + i]]_vars

\* a Peek of two bytes succeeded after two bytes had been handed out
C31_Witness ==
    /\ bufr.op = "Peek" /\ bufr.ret = "nil" /\ bufr.n = 2
    /\ bufr.out = << 3, 4 >> /\ bufr.took = << 1, 2 >>
    /\ bufr.w - bufr.r >= 2

\* this step is a request for bufr'.n > 0 bytes (Read, ReadByte or Peek)
\* within the buffer or the maximum that the source, ending with EOF, could
\* not satisfy: fewer than n bytes were left in the buffer and the source
\* together
EndedBeforeRequest ==
    /\ bufr.op # "none"
    /\ bufr'.op \in {"Read", "ReadByte", "Peek"}
    /\ bufr.srcEnd = "EOF"
    /\ bufr'.n > 0
    /\ (bufr'.n <= bufr.len \/ bufr'.n <= bufr.maxSize)
    /\ Len(bufr.data) + Len(bufr.src) < bufr'.n

\* C32: a Read, ReadByte or Peek of n bytes that the source ends before
\* fails with UnexpectedEOF when at least one byte is buffered for it and
\* with plain EOF when none is (and with neither otherwise); the bytes
\* handed out so far stay the same and every byte that was buffered or read
\* for the request stays buffered
C32_EOFByBufferedBytes ==
    [][EndedBeforeRequest =>
          /\ (bufr'.ret = "UnexpectedEOF") <=> (Len(bufr'.data) > 0)
          /\ (bufr'.ret = "EOF") <=> (Len(bufr'.data) = 0)
          /\ bufr'.took = bufr.took
          /\ bufr'.data = bufr.data \o bufr.src
          /\ bufr'.w - bufr'.r = Len(bufr'.data)]_vars

\* a Read of four bytes found three and the end of the source
C32_Witness ==
    /\ bufr.op = "Read" /\ bufr.n = 4 /\ bufr.ret = "UnexpectedEOF"
    /\ bufr.data = << 2, 3, 4 >> /\ bufr.took = << 1 >> /\ bufr.src = <<>>

\* a Read at the end of the stream with nothing buffered: plain EOF
C32_WitnessPlain ==
    /\ bufr.op = "Read" /\ bufr.n = 2 /\ bufr.ret = "EOF"
    /\ bufr.data = <<>> /\ bufr.took = << 1, 2, 3, 4 >>

\* this step is a call of Discard
DiscardStep == bufr.op # "none" /\ bufr'.op = "Discard"

\* what Discard(n) has to do: with n bytes left in buffer and source it
\* returns n and no error and the stream is n bytes further, the buffered
\* bytes and the source being what was behind them; with fewer left it
\* returns their number and the error the source ends with; the buffer is
\* as long as before
DiscardedAsAsked ==
    /\ bufr'.len = bufr.len
    /\ Len(bufr.data) + Len(bufr.src) >= bufr'.n =>
          /\ bufr'.ret = "nil" /\ bufr'.disc = bufr'.n
          /\ bufr'.took = bufr.took \o Take(bufr.data \o bufr.src, bufr'.n)
          /\ bufr'.data \o bufr'.src = Drop(bufr.data \o bufr.src, bufr'.n)
    /\ Len(bufr.data) + Len(bufr.src) < bufr'.n =>
          /\ bufr'.ret = bufr.srcEnd
          /\ bufr'.disc = Len(bufr.data) + Len(bufr.src)
          /\ bufr'.took = bufr.took \o bufr.data \o bufr.src

\* C38: Discard(n) returns n without an error and moves the stream on by
\* exactly n bytes when buffer and source hold n more bytes, for n below and
\* above the buffered amount and the length of the buffer; it returns the
\* number discarded and the source's error when the source ends first; it
\* never changes the length of the buffer
C38_DiscardAdvances == [][DiscardStep => DiscardedAsAsked]_vars

\* the same for a reader whose buffer is not of length 0
C38_DiscardWithBuffer == [][(DiscardStep /\ bufr.len > 0) => DiscardedAsAsked]_vars

\* a Discard on a buffer of length 0 that has to read the source never
\* returns
C38_DiscardHangs ==
    [][(DiscardStep /\ bufr.len = 0 /\ bufr'.n > 0) => bufr'.ret = "hang"]_vars

\* C39: whatever Read, ReadByte, Peek and Discard calls were made and however
\* the source cut its reads, the bytes handed out by successful Read and
\* ReadByte calls together with the discarded ones are, in their order, a
\* prefix of the source stream, and the bytes still buffered followed by
\* those still in the source are the rest of it: no byte is lost,
\* duplicated or out of order
C39_DeliveredIsPrefix ==
    bufr.op # "none" =>
    bufr.took \o bufr.data \o bufr.src = [i \in 1..MaxStream |-> i]

\* the whole stream was handed out by calls that grew and compacted the
\* buffer: a buffer of one byte, then of two and of four
C39_Witness ==
    /\ bufr.op = "Read" /\ bufr.ret = "nil"
    /\ bufr.took = << 1, 2, 3, 4 >>
    /\ bufr.len = 4 /\ bufr.maxSize = 4 /\ bufr.n = 1 /\ bufr.r = 3

\* compaction: a read behind a discard moved buffered bytes to the start
C39_WitnessCompacted ==
    /\ bufr.op = "Read" /\ bufr.ret = "nil" /\ bufr.reads > 0
    /\ bufr.took = << 1, 2, 3 >> /\ bufr.n = 2 /\ bufr.len = 2

\* 0 <= r <= w <= len(buf)
CursorsInOrder ==
    bufr.op # "none" =>
    /\ 0 <= bufr.r /\ bufr.r <= bufr.w /\ bufr.w <= Len(bufr.buf)
    /\ bufr.w - bufr.r >= 0

\* this step is a Read, ReadByte or Peek that returned an error
FailedRequest ==
    /\ bufr.op # "none"
    /\ bufr'.op \in {"Read", "ReadByte", "Peek"}
    /\ bufr'.ret # "nil"

\* C40: in every reachable state of a BufferedReader 0 <= r <= w <= len(buf)
\* and Buffered() = w - r is not negative, and a Read, ReadByte or Peek that
\* fails leaves r as it was
C40_CursorsAndFailedReads ==
    /\ CursorsInOrder
    /\ [][/\ CursorsInOrder'
          /\ FailedRequest => bufr'.r = bufr.r]_vars

\* C40 (amended): in every reachable state of a BufferedReader 0 <= r <= w
\* <= len(buf) and Buffered() = w - r is not negative, and a Read, ReadByte
\* or Peek that fails does not advance the read position: r is as it was, or
\* it is 0 because the call moved the unread bytes to the start of the
\* buffer; nothing is handed out and the bytes that were unread are still
\* the first unread ones
C40_CursorsAndFailedReadsInPlace ==
    /\ CursorsInOrder
    /\ [][/\ CursorsInOrder'
          /\ FailedRequest =>
                /\ bufr'.r \in {bufr.r, 0}
                /\ bufr'.took = bufr.took
                /\ IsPrefix(bufr.data, bufr'.data)]_vars

\* a Read of two bytes failed behind a Read of three: r was 3 and is 0, as
\* the last byte of the stream was read to the start of the buffer
C40_Witness ==
    /\ bufr.op = "Read" /\ bufr.ret = "UnexpectedEOF" /\ bufr.n = 2
    /\ bufr.took = << 1, 2, 3 >> /\ bufr.data = << 4 >>
    /\ bufr.r = 0 /\ bufr.w = 1 /\ bufr.len = 4

\* this step is a call of FrameReader.ReadByte, on either of its paths
ReadByteStep == \E byteReader \in BOOLEAN : \E e \in SourceErrors : FrameReaderReadByte(byteReader, e)

\* what Read with a one-byte buffer returns when the source returns as many
\* bytes and the same error as it did in this step
AsReadOfOneByte == FrameReadSrc(wire, remaining, 1, Len(wire) - Len(wire'), res'.src)

\* C37: on both of its paths ReadByte does what Read with a one-byte buffer
\* does: with remaining = 0 it returns EOF and leaves the source alone; it
\* consumes at most one byte and decreases remaining by the number consumed;
\* a source EOF while remaining is still above 0 is returned as
\* UnexpectedEOF; error, source and remaining after the call are those of
\* the Read
C37_ReadByteAsRead ==
    [][ReadByteStep =>
          /\ remaining = 0 => (res'.err = "EOF" /\ wire' = wire /\ remaining' = remaining)
          /\ Len(wire) - Len(wire') \in {0, 1}
          /\ remaining' = remaining - (Len(wire) - Len(wire'))
          /\ res'.n = Len(wire) - Len(wire')
          /\ (res'.src = "EOF" /\ remaining' > 0) => res'.err = "UnexpectedEOF"
          /\ res'.err = AsReadOfOneByte.err
          /\ wire' = AsReadOfOneByte.wire
          /\ remaining' = AsReadOfOneByte.remaining]_vars

\* the byte-wise path: the source's ReadByte failed with bytes still to
\* come, nothing was consumed
C37_Witness ==
    /\ res.op = "ReadByte" /\ res.src = "SrcErr" /\ res.err = "SrcErr" /\ res.n = 0
    /\ remaining > 0 /\ wire # <<>>

\* the path through Read: the source returned a byte together with its
\* error
C37_WitnessThroughRead ==
    /\ res.op = "ReadByte" /\ res.src = "SrcErr" /\ res.n = 1 /\ remaining > 0

\* the byte-wise path met the end of the source inside a frame
C37_WitnessEOF ==
    /\ res.op = "ReadByte" /\ res.src = "EOF" /\ res.err = "UnexpectedEOF" /\ res.n = 0
    /\ remaining > 0 /\ wire = <<>>

\* ReadByte at the end of a frame, with bytes of the next one waiting
C37_WitnessFrameEnd ==
    /\ res.op = "ReadByte" /\ res.err = "EOF" /\ res.n = 0 /\ remaining = 0 /\ wire # <<>>
    /\ fhist.payload = fhist.frameLength /\ fhist.frameLength > 0

(***************************************************************************)
(* Vocabulary of the threshold claim.                                      *)
(***************************************************************************)
\* the step is a Send: one more call is in flight behind the others
SendStep == Len(inflight') = Len(inflight) + 1

\* the call the Send step has added
LastSent == inflight[Len(inflight)]

\* the step writes compressionThreshold
ThresholdChanged == compressionThreshold' # compressionThreshold

\* what the call e wrote is the encoding of e.b under the threshold t, as
\* the decoders read it
EncodedUnder(e, t) ==
    IF t < 0 THEN e.bytes = WriteVarInt(Len(e.b)) \o e.b
    ELSE IF Len(e.b) < t
         THEN e.bytes = WriteVarInt(Len(e.b) + 1) \o << 0 >> \o e.b
         ELSE /\ WholeFrame(e.bytes)
              /\ DeclaredIn(e.bytes).v = Len(e.b)
              /\ DeclaredIn(e.bytes).err = "nil"

C34_WitnessRecv ==
    /\ RecvIssued /\ AtHead /\ HeadSend.ok /\ HeadSend.thr = 2
    /\ compressionThreshold = 2
    /\ HeadSend.bytes = << 2, 0, 1 >>
    /\ pr.kind = "plain" /\ remaining = 1

(***************************************************************************)
(* The registry-dispatching transport (transport.go 128-324): Recv(reg)    *)
(* reads one frame through the FrameReader into the payloadReader, looks   *)
(* the packet id up in reg and decodes the packet.  rt holds the transport *)
(* and the unread bytes of its source.                                     *)
(***************************************************************************)
\* most bytes the source delivers in one Recv before a read of it fails
MaxCut == 3

\* packet ids and packet types of status.go; the registries are generated
\* from the regserver and regclient marks (codegen template)
StatusServerboundRegistry == (0 :> "StatusReqPacket") @@ (1 :> "PingReqPacket")

StatusClientboundRegistry == (0 :> "StatusRespPacket")

Registries == { StatusServerboundRegistry, StatusClientboundRegistry }

\* the eight bytes of a Long
Timestamp == << 21, 22, 23, 24, 25, 26, 27, 28 >>

\* frames the peer writes: length prefix, packet id, fields
RegistryFrames ==
    { << 1, 0 >>,                               \* id 0, no fields
      << 2, 0, 5 >>,                            \* id 0 and one more byte
      << 1, 16 >>,                              \* id 16
      << 9, 1 >> \o Timestamp,                  \* id 1, a Long
      << 10, 1 >> \o Timestamp \o << 5 >>,      \* id 1, a Long and one more byte
      << 3, 1, 21, 22 >>,                       \* id 1, two bytes of a Long
      << 1, 128 >>,                             \* an id that does not end
      << 3, 0, 1, 7 >>,                         \* id 0, a String of one byte
      << 2, 0, 0 >>,                            \* declared length 0, id 0
      << 2, 2, 0 >>,                            \* declared length 2
      << 5, 255, 255, 255, 255, 15 >> }         \* id -1

\* the streams a source holds: a frame, two short frames, and what is left
\* of these when the stream ends early
RegistryStreams ==
    LET whole == RegistryFrames
                 \cup { f \o g : f, g \in { h \in RegistryFrames : Len(h) <= 3 } }
    IN  whole \cup { Take(s, k) : s \in whole, k \in 1..5 }

\* TransportConfig and compressionThreshold of the transports constructed
RegistryConfigs ==
    [ MaxPacketLen         : {16},
      MaxRetainedBufferLen : {0, 2},
      MaxDecompressedLen   : {1},
      RecoverTrailingData  : BOOLEAN,
      compressionThreshold : {-1, 0} ]
    \cup
    { [ MaxPacketLen |-> 3, MaxRetainedBufferLen |-> 0, MaxDecompressedLen |-> 1,
        RecoverTrailingData |-> FALSE, compressionThreshold |-> -1 ] }

\* how a read of the source can fail during one Recv: not at all, once
\* ("SrcErr": the next read succeeds again), or from then on until the call
\* returns ("Timeout": the read deadline set at the start of Recv)
ReadFailures == {"nil", "SrcErr", "Timeout"}

Zeros(n) == [i \in 1..n |-> 0]

\* payloadReader: buf is the retained array, tmp the temporary one; cur is
\* the first len bytes of one of them
NewPayloadReader(maxRetained) ==
    [buf |-> <<>>, tmp |-> <<>>, inTmp |-> FALSE, len |-> 0, off |-> 0,
     MaxRetained |-> maxRetained]

\* r.cur
payloadCur(r) == SubSeq(IF r.inTmp THEN r.tmp ELSE r.buf, 1, r.len)

\* r.Remaining()
payloadRemaining(r) == r.len - r.off

\* the bytes of cur behind off
payloadUnread(r) ==
    IF r.off >= r.len THEN <<>> ELSE SubSeq(payloadCur(r), r.off + 1, r.len)

\* r.Read(n)
payloadRead(r, n) ==
    IF r.off + n > r.len
    THEN [r |-> r, v |-> <<>>, err |-> "UnexpectedEOF"]
    ELSE [r |-> [r EXCEPT !.off = @ + n],
          v |-> SubSeq(payloadCur(r), r.off + 1, r.off + n), err |-> "nil"]

\* packet.ReadVarInt(r) over r.ReadByte(), which returns UnexpectedEOF at
\* the end of cur
payloadReadVarInt(r) ==
    LET d == ReadVarInt(payloadUnread(r))
    IN  [r |-> [r EXCEPT !.off = @ + d.n], v |-> d.v, err |-> d.err]

\* io.ReadFull(src, cur) with len(cur) = n, src the frame reader over w and
\* rem: the source delivers what it holds, and fails with e after j bytes
ReadFullFrame(w, rem, n, j, e) ==
    LET m == IF e = "nil" THEN Min(n, Len(w)) ELSE Min(j, Min(n, Len(w)))
    IN  [data      |-> Take(w, m),
         err       |-> IF m = n THEN "nil"
                       ELSE IF e # "nil" /\ m = j THEN e
                       ELSE "UnexpectedEOF",
         wire      |-> Drop(w, m),
         remaining |-> rem - m]

\* the array Reset takes for n bytes: the temporary one when n is over
\* MaxRetained, else the retained one; a new array when the old is short
payloadResetBuffers(r, n) ==
    IF r.MaxRetained > 0 /\ n > r.MaxRetained
    THEN IF (IF r.inTmp THEN Len(r.tmp) ELSE Len(r.buf)) < n
         THEN [r EXCEPT !.tmp = Zeros(n), !.inTmp = TRUE, !.len = n]
         ELSE [r EXCEPT !.len = n]
    ELSE [r EXCEPT !.buf = IF Len(r.buf) < n THEN Zeros(n) ELSE r.buf,
                   !.tmp = <<>>, !.inTmp = FALSE, !.len = n]

\* the bytes data written at the start of cur
payloadFilled(r, data) ==
    IF r.inTmp THEN [r EXCEPT !.tmp = copy(r.tmp, data)]
    ELSE [r EXCEPT !.buf = copy(r.buf, data)]

\* r.Reset(src, n): off is set to 0 only when the n bytes were read
payloadReset(r, w, rem, n, j, e) ==
    LET f  == ReadFullFrame(w, rem, n, j, e)
        r2 == payloadFilled(payloadResetBuffers(r, n), f.data)
    IN  [r         |-> IF f.err = "nil" THEN [r2 EXCEPT !.off = 0] ELSE r2,
         err       |-> f.err,
         wire      |-> f.wire,
         remaining |-> f.remaining]

\* no packet: the nil that Recv returns beside an error
NoPacket == [type |-> "nil", fields |-> <<>>]

\* variant of RegistryBuild: an id without a factory gets the factory of
\* the smallest registered id
RegistryBuildDefault(reg, id) ==
    IF id \in DOMAIN reg THEN reg[id] ELSE reg[CHOOSE i \in DOMAIN reg : \A k \in DOMAIN reg : i <= k]

\* build := reg[id]: the registered type, or "nil" for an id without one
RegistryBuild(reg, id) == IF id \in DOMAIN reg THEN reg[id] ELSE "nil"

\* ReadString over the payload reader: the length, then that many bytes
payloadReadString(r) ==
    LET l == payloadReadVarInt(r)
    IN  IF l.err # "nil" THEN [r |-> l.r, v |-> <<>>, err |-> l.err]
        ELSE IF l.v < 0 THEN [r |-> l.r, v |-> <<>>, err |-> "NegativeLength"]
        ELSE payloadRead(l.r, l.v)

\* p.Decode(r) of the generated codec: the fields of the type are read in
\* their order; StatusReqPacket has none, PingReqPacket a Long (eight
\* bytes), StatusRespPacket a String
Decode(type, r) ==
    LET f == CASE type = "StatusReqPacket"  -> [r |-> r, v |-> <<>>, err |-> "nil"]
               [] type = "PingReqPacket"    -> payloadRead(r, 8)
               [] type = "StatusRespPacket" -> payloadReadString(r)
               [] OTHER                     -> [r |-> r, v |-> <<>>, err |-> "nil"]
    IN  [r |-> f.r, p |-> [type |-> type, fields |-> f.v], err |-> f.err]

\* the error Recv returns after a Decode without error
RecvTrailing(fRemaining, pRemaining) ==
    IF fRemaining > 0 THEN "TrailingData"
    ELSE IF pRemaining > 0 THEN "TrailingData"
    ELSE "nil"

\* t.fReader.Skip() after the read of the frame failed with e: a failure
\* that lasts gives no byte, else the source delivers what it holds
RecvSkip(w, rem, e) ==
    IF e = "Timeout" THEN FrameSkipSrc(w, rem, 0, e)
    ELSE FrameSkipSrc(w, rem, Len(w), "EOF")

\* Recv with compression enabled: decompressedLen is read from the frame
\* reader over w and rem, the source failing with e after j bytes; a
\* positive one within MaxDecompressedLen reaches panic("not implemented").
\* With compression disabled nothing is read.
RecvDeclaredLen(c, w, rem, j, e) ==
    IF c.compressionThreshold < 0
    THEN [err |-> "nil", wire |-> w, remaining |-> rem, j |-> j]
    ELSE LET avail == Take(w, rem)
             d     == ReadVarIntFromReader(IF e = "nil" THEN avail ELSE Take(avail, j))
             cut   == /\ e # "nil" /\ d.err \in {"EOF", "UnexpectedEOF"}
                      /\ d.n = j /\ j < Len(avail)
         IN  [err       |-> IF cut THEN e
                            ELSE IF d.err # "nil" THEN "UnexpectedEOF"
                            ELSE IF d.v > c.MaxDecompressedLen THEN "PacketTooBig"
                            ELSE IF d.v > 0 THEN "panic"
                            ELSE IF d.v < 0 THEN "InvalidDataLength"
                            ELSE "nil",
              wire      |-> Drop(w, d.n),
              remaining |-> rem - d.n,
              j         |-> j - d.n]

\* t.fReader.Next() on a source that fails with e after j bytes
FrameNextFailing(w, rem, j, e) ==
    IF rem > 0 \/ e = "nil" THEN FrameNext(w, rem)
    ELSE LET nx == FrameNext(Take(w, j), rem)
         IN  IF nx.err \in {"EOF", "UnexpectedEOF"} /\ j < Len(w)
             THEN [nx EXCEPT !.err = e, !.wire = Drop(w, nx.n)]
             ELSE [nx EXCEPT !.wire = Drop(w, nx.n)]

\* how far a Recv came: nx is what Next returned, dl the read of the
\* declared length, id the read of the packet id, d what Decode returned
RecvStage(t, reg, nx, dl, id, d) ==
    IF nx.err # "nil" THEN "Next"
    ELSE IF nx.length > t.cfg.MaxPacketLen THEN "MaxPacketLen"
    ELSE IF dl.err # "nil" THEN "decompressedLen"
    ELSE IF id.err # "nil" THEN "id"
    ELSE IF RegistryBuild(reg, id.v) = "nil" THEN "build"
    ELSE IF d.err # "nil" THEN "Decode"
    ELSE "decoded"

\* what one Recv leaves behind beside its results: the frame as the source
\* held it, what Reset and Skip returned, the counters before the skip
NoRecvHistory ==
    [stage |-> "none", reg |-> << >>, prefix |-> 0, frameLength |-> 0, body |-> <<>>,
     after |-> <<>>, reset |-> "none", id |-> 0, frameLeft |-> 0, payloadLeft |-> 0,
     skip |-> "none"]

RecvHistory(t, reg, nx, dl, z, id, d, s, stage) ==
    [stage       |-> stage,
     reg         |-> reg,
     prefix      |-> nx.n,
     frameLength |-> IF stage = "Next" THEN 0 ELSE nx.length,
     body        |-> IF stage = "Next" THEN <<>> ELSE Take(nx.wire, nx.length),
     after       |-> IF stage = "Next" THEN nx.wire ELSE Drop(nx.wire, nx.length),
     reset       |-> IF stage \in {"id", "build", "Decode", "decoded"} THEN z.err ELSE "none",
     id          |-> IF stage \in {"build", "Decode", "decoded"} THEN id.v ELSE 0,
     frameLeft   |-> IF stage = "decoded" THEN z.remaining ELSE 0,
     payloadLeft |-> IF stage = "decoded" THEN payloadRemaining(d.r) ELSE 0,
     skip        |-> IF stage = "decoded" /\ z.remaining > 0 /\ t.cfg.RecoverTrailingData
                     THEN s.err ELSE "none"]

\* Recv returns p and err; w, rem and r are the source, the frame reader
\* and the payload reader it leaves
RegistryReturn(t, p, err, w, rem, r, h) ==
    [t EXCEPT !.op = "Recv", !.p = p, !.err = err, !.src = w, !.remaining = rem,
              !.pReader = r, !.hist = h]

\* t.Recv(reg), from what its steps returned: nx Next, dl the read of the
\* declared length, z the Reset of the payload reader (its error is
\* dropped), id the read of the packet id, d Decode, s Skip
RegistryRecv(t, reg, nx, dl, z, id, d, s) ==
    LET stage == RecvStage(t, reg, nx, dl, id, d)
        h     == RecvHistory(t, reg, nx, dl, z, id, d, s, stage)
    IN  CASE stage = "Next" ->
                RegistryReturn(t, NoPacket, nx.err, nx.wire, nx.remaining, t.pReader, h)
          [] stage = "MaxPacketLen" ->
                RegistryReturn(t, NoPacket, "PacketTooBig", nx.wire, nx.remaining,
                               t.pReader, h)
          [] stage = "decompressedLen" ->
                RegistryReturn(t, NoPacket, dl.err, dl.wire, dl.remaining, t.pReader, h)
          [] stage = "id" ->
                RegistryReturn(t, NoPacket, id.err, z.wire, z.remaining, id.r, h)
          [] stage = "build" ->
                RegistryReturn(t, NoPacket, "UnknownPacketId", z.wire, z.remaining, id.r, h)
          [] stage = "Decode" ->
                RegistryReturn(t, d.p, d.err, z.wire, z.remaining, d.r, h)
          [] OTHER ->
                IF z.remaining > 0 /\ t.cfg.RecoverTrailingData
                THEN RegistryReturn(t, d.p, RecvTrailing(z.remaining, payloadRemaining(d.r)),
                                    s.wire, s.remaining, d.r, h)
                ELSE RegistryReturn(t, d.p, RecvTrailing(z.remaining, payloadRemaining(d.r)),
                                    z.wire, z.remaining, d.r, h)

(***************************************************************************)
(* The calls on the registry-dispatching transport, as actions.            *)
(***************************************************************************)
RegistryUnchanged == UNCHANGED << transport, fhist, codec, bufr, mx >>

\* the transport NewTransport(conn, cfg) returns, conn holding the stream s
NewRegistryTransport(c, s) ==
    [op |-> "New", cfg |-> c, src |-> s, remaining |-> 0,
     pReader |-> NewPayloadReader(c.MaxRetainedBufferLen),
     p |-> NoPacket, err |-> "nil", hist |-> NoRecvHistory]

\* NewTransport(conn, cfg)
RegistryNew ==
    /\ rt.op = "none"
    /\ rt' \in { NewRegistryTransport(c, s) : c \in RegistryConfigs, s \in RegistryStreams }
    /\ RegistryUnchanged

\* t.Recv(reg); the source fails with e after j bytes of this call
RegistryRecvCall(reg, j, e) ==
    /\ rt.op # "none"
    /\ rt.err # "panic"
    /\ IF e = "nil" THEN j = 0 ELSE j <= Len(rt.src)
    /\ \E nx \in { FrameNextFailing(rt.src, rt.remaining, j, e) } :
       \E dl \in { RecvDeclaredLen(rt.cfg, nx.wire, nx.remaining, j - nx.n, e) } :
       \E z \in { payloadReset(rt.pReader, dl.wire, dl.remaining, dl.remaining, dl.j, e) } :
       \E id \in { payloadReadVarInt(z.r) } :
       \E d \in { Decode(RegistryBuild(reg, id.v), id.r) } :
       \E s \in { RecvSkip(z.wire, z.remaining, IF z.err = "nil" THEN "nil" ELSE e) } :
          rt' = RegistryRecv(rt, reg, nx, dl, z, id, d, s)
    /\ RegistryUnchanged

NextRegistry ==
    \/ RegistryNew
    \/ \E reg \in Registries : \E j \in 0..MaxCut : \E e \in ReadFailures :
          RegistryRecvCall(reg, j, e)

SpecRegistry == Init /\ [][NextRegistry]_vars

(***************************************************************************)
(* Vocabulary of the registry claims.                                      *)
(***************************************************************************)
\* the last call on the transport was a Recv
RegistryRecvReturned == rt.op = "Recv"

\* that Recv read a frame from the source: Next returned its length, which
\* is within MaxPacketLen, and the payload reader took in all of its bytes
FrameTakenIn == RegistryRecvReturned /\ rt.hist.reset = "nil"

\* the bytes of that frame behind the declared length
FramePayload ==
    IF rt.cfg.compressionThreshold < 0 THEN rt.hist.body ELSE Drop(rt.hist.body, 1)

\* the packet id the frame carries, read from its bytes
FramePacketId == ReadVarInt(FramePayload)

\* the bytes of the frame behind the packet id
FrameFields == Drop(FramePayload, FramePacketId.n)

\* the frame holds all the fields of the packet type
FieldsWhole(type) ==
    CASE type = "StatusReqPacket"  -> TRUE
      [] type = "PingReqPacket"    -> Len(FrameFields) >= 8
      [] type = "StatusRespPacket" ->
            LET l == ReadVarInt(FrameFields)
            IN  l.err = "nil" /\ l.v >= 0 /\ Len(FrameFields) >= l.n + l.v

\* the field bytes of the packet type as they stand in the frame
FieldsOf(type) ==
    CASE type = "StatusReqPacket"  -> <<>>
      [] type = "PingReqPacket"    -> SubSeq(FrameFields, 1, 8)
      [] type = "StatusRespPacket" ->
            LET l == ReadVarInt(FrameFields)
            IN  SubSeq(FrameFields, l.n + 1, l.n + l.v)

(***************************************************************************)
(* C33.  After a Recv(reg) that read a frame whose packet id is a whole    *)
(* VarInt: when reg has no factory for the id, Recv returned               *)
(* UnknownPacketId and no packet; when reg has one, Recv returned a packet *)
(* of the registered type, and when the frame holds all the fields of that *)
(* type the packet's fields are the bytes of the frame body behind the id  *)
(* and the error is nil or TrailingData.                                   *)
(***************************************************************************)
C33_RegistryDispatch ==
    (FrameTakenIn /\ FramePacketId.err = "nil") =>
        IF FramePacketId.v \notin DOMAIN rt.hist.reg
        THEN rt.err = "UnknownPacketId" /\ rt.p = NoPacket
        ELSE LET type == rt.hist.reg[FramePacketId.v]
             IN  /\ rt.p.type = type
                 /\ rt.err # "UnknownPacketId"
                 /\ FieldsWhole(type) =>
                       /\ rt.p.fields = FieldsOf(type)
                       /\ rt.err \in {"nil", "TrailingData"}
                 /\ ~FieldsWhole(type) => rt.err \notin {"nil", "TrailingData"}

\* the frame 01 10 of the transport test, received with the serverbound
\* status registry: UnknownPacketId and no packet
C33_Witness ==
    /\ FrameTakenIn
    /\ rt.hist.body = << 16 >>
    /\ rt.hist.reg = StatusServerboundRegistry
    /\ rt.err = "UnknownPacketId" /\ rt.p = NoPacket

\* id 1 of the serverbound status registry: a PingReqPacket with the eight
\* bytes of the frame as its Timestamp
C33_WitnessPing ==
    /\ FrameTakenIn
    /\ rt.hist.reg = StatusServerboundRegistry
    /\ rt.p = [type |-> "PingReqPacket", fields |-> Timestamp]
    /\ rt.err = "nil"

\* id 0 of the clientbound status registry: a StatusRespPacket, where the
\* serverbound one gives a StatusReqPacket
C33_WitnessResp ==
    /\ FrameTakenIn
    /\ rt.hist.reg = StatusClientboundRegistry
    /\ rt.p = [type |-> "StatusRespPacket", fields |-> << 7 >>]
    /\ rt.err = "nil"

\* a negative id has no factory
C33_WitnessNegative ==
    /\ FrameTakenIn
    /\ FramePacketId.err = "nil" /\ FramePacketId.v = -1
    /\ rt.err = "UnknownPacketId" /\ rt.p = NoPacket

\* Recv returned a packet that Decode had filled without error
DecodedWithoutError ==
    /\ RegistryRecvReturned
    /\ rt.p # NoPacket
    /\ rt.err \in {"nil", "TrailingData"}

\* the next Recv starts at a frame boundary: the frame reader has nothing
\* left to deliver and the source stands behind the last byte of the frame
AtFrameBoundary ==
    /\ rt.remaining = 0
    /\ Len(rt.hist.body) = rt.hist.frameLength
    /\ rt.src = rt.hist.after

\* the number of bytes the fields of the packet type take in the frame
FieldsSize(type) ==
    CASE type = "StatusReqPacket"  -> 0
      [] type = "PingReqPacket"    -> 8
      [] type = "StatusRespPacket" ->
            LET l == ReadVarInt(FrameFields) IN l.n + l.v

\* TrailingData is returned after a Decode without error exactly when the
\* frame reader or the payload reader has bytes left, nil when neither has
TrailingDataByRule ==
    /\ rt.err = "TrailingData" <=> (rt.hist.frameLeft > 0 \/ rt.hist.payloadLeft > 0)
    /\ rt.err = "nil" <=> (rt.hist.frameLeft = 0 /\ rt.hist.payloadLeft = 0)
    /\ FrameTakenIn =>
          /\ rt.hist.frameLeft = 0
          /\ rt.hist.payloadLeft = Len(FrameFields) - FieldsSize(rt.p.type)

(***************************************************************************)
(* C36.  After a Recv whose packet decoded without error: the error is     *)
(* TrailingData when the frame or the buffered payload has unread bytes    *)
(* and nil only when neither has; and with RecoverTrailingData set the     *)
(* next Recv starts at a frame boundary.                                   *)
(***************************************************************************)
C36_TrailingDataAndRecovery ==
    DecodedWithoutError =>
        /\ TrailingDataByRule
        /\ rt.cfg.RecoverTrailingData => AtFrameBoundary

\* the part of C36 that holds: the rule for TrailingData
C36_TrailingDataRule == DecodedWithoutError => TrailingDataByRule

\* the part of C36 that holds: the frame is left behind whenever the
\* payload reader took it in whole, and also when bytes of it were left and
\* the skip read them all
C36_BoundaryWhenRead ==
    DecodedWithoutError =>
        /\ FrameTakenIn => AtFrameBoundary
        /\ rt.hist.skip = "nil" => AtFrameBoundary
        /\ (rt.hist.frameLeft > 0 /\ rt.hist.skip # "nil") => rt.remaining > 0

\* a packet and TrailingData were returned with RecoverTrailingData set, and
\* the frame reader still has bytes of the frame to deliver
C36_StuckInFrame ==
    /\ DecodedWithoutError
    /\ rt.cfg.RecoverTrailingData
    /\ rt.err = "TrailingData"
    /\ rt.hist.frameLeft > 0 /\ rt.hist.skip = "UnexpectedEOF"
    /\ rt.remaining > 0

\* bytes of the frame were left, the skip read them: the frame boundary
C36_Skipped ==
    /\ DecodedWithoutError
    /\ rt.hist.frameLeft > 0 /\ rt.hist.skip = "nil"
    /\ AtFrameBoundary

\* one byte behind the fields of a frame taken in whole: TrailingData
C36_PayloadLeft ==
    /\ DecodedWithoutError /\ FrameTakenIn
    /\ rt.hist.payloadLeft = 1 /\ rt.err = "TrailingData"
    /\ AtFrameBoundary

(***************************************************************************)
(* The transport with sendMu and recvMu (transport.go 339-587).  Send and  *)
(* Recv are called from several goroutines; a call is a sequence of steps, *)
(* one for the Lock and one for each write to the sink or read phase, and  *)
(* the steps of different goroutines interleave.  mx holds the transport,  *)
(* the goroutines' positions, the sink and the source.                     *)
(***************************************************************************)
\* most calls of Send begun on one transport
MaxSent == 2

\* the goroutines that call Send, and the one that calls Recv
Senders == {1, 2}

Receivers == {3}

Procs == Senders \cup Receivers

\* the packets passed to Send
MutexPackets ==
    { [type |-> "StatusReqPacket", fields |-> <<>>],
      [type |-> "StatusRespPacket", fields |-> << 7 >>] }

\* the streams the source holds: one frame, two frames the second with an
\* unknown id, a frame with a byte too many
MutexStreams == { << 1, 0 >>, << 1, 0, 1, 16 >>, << 2, 0, 5 >> }

MutexConfigs ==
    [ MaxPacketLen         : {16},
      MaxRetainedBufferLen : {0},
      MaxDecompressedLen   : {1},
      RecoverTrailingData  : {TRUE},
      compressionThreshold : {-1} ]

\* p.ID()
PacketID(type) ==
    CASE type = "StatusReqPacket"  -> 0
      [] type = "PingReqPacket"    -> 1
      [] type = "StatusRespPacket" -> 0

\* p.Encode(buf) of the generated codec: the id, then the fields in their
\* order (a Long as its eight bytes, a String behind its length)
Encode(p) ==
    WriteVarInt(PacketID(p.type)) \o
    ( CASE p.type = "StatusReqPacket"  -> <<>>
        [] p.type = "PingReqPacket"    -> p.fields
        [] p.type = "StatusRespPacket" -> WriteVarInt(Len(p.fields)) \o p.fields )

\* what a goroutine holds between the steps of a call
NoCall == [p |-> NoPacket, reg |-> << >>, buf |-> <<>>, k |-> 0,
           nx |-> [length |-> 0, err |-> "nil", wire |-> <<>>, remaining |-> 0, n |-> 0]]

\* NewTransport(conn, cfg), conn holding the stream s to read
NewMutexTransport(c, s) ==
    [op |-> "New", cfg |-> c, src |-> s, remaining |-> 0,
     pReader |-> NewPayloadReader(c.MaxRetainedBufferLen),
     p |-> NoPacket, err |-> "nil", hist |-> NoRecvHistory,
     sendMu |-> 0, recvMu |-> 0,
     pc |-> [g \in Procs |-> "idle"], call |-> [g \in Procs |-> NoCall],
     sink |-> <<>>, broken |-> FALSE, sent |-> 0, overlapped |-> FALSE]

\* variant of SendMuFree: one mutex guards both directions
SendMuFreeOfBoth(t) == t.sendMu = 0 /\ t.recvMu = 0

\* variant of SendMuFree: Send does not take a lock
SendMuFreeAlways(t) == TRUE

\* t.sendMu.Lock() returns only while no goroutine holds sendMu
SendMuFree(t) == t.sendMu = 0

\* t.recvMu.Lock() returns only while no goroutine holds recvMu
RecvMuFree(t) == t.recvMu = 0

\* the goroutine g has returned from its call
MutexReturned(t, g) == [t EXCEPT !.pc[g] = "idle", !.call[g] = NoCall]

\* packetLen, err := ReadVarIntFromReader(t.reader), the bound, and
\* t.fReader.Reset(t.reader, packetLen) when the length passed
MutexNext(t) ==
    LET r == ReadVarIntFromReader(t.src)
    IN  [length    |-> r.v,
         err       |-> r.err,
         wire      |-> Drop(t.src, r.n),
         remaining |-> IF r.err = "nil" /\ r.v <= t.cfg.MaxPacketLen
                       THEN r.v ELSE t.remaining,
         n         |-> r.n]

MutexUnchanged == UNCHANGED << transport, fhist, codec, bufr, rt >>

\* NewTransport(conn, cfg)
MutexNew ==
    /\ mx.op = "none"
    /\ mx' \in { NewMutexTransport(c, s) : c \in MutexConfigs, s \in MutexStreams }
    /\ MutexUnchanged

\* the goroutine g calls t.Send(p)
MutexCallSend(g, p) ==
    /\ mx.op # "none"
    /\ mx.pc[g] = "idle"
    /\ mx.sent < MaxSent
    /\ mx' = [mx EXCEPT !.pc[g] = "SendLock", !.sent = @ + 1,
                        !.call[g] = [NoCall EXCEPT !.p = p, !.k = mx.sent + 1]]
    /\ MutexUnchanged

\* t.sendMu.Lock(), then p.Encode(buf) and the length of buf into lenbuf
MutexSendLock(g) ==
    /\ mx.op # "none"
    /\ mx.pc[g] = "SendLock"
    /\ SendMuFree(mx)
    /\ mx' = [mx EXCEPT !.sendMu = g, !.pc[g] = "SendPrefix",
                        !.call[g].buf = Encode(mx.call[g].p),
                        !.overlapped = mx.recvMu # 0]
    /\ MutexUnchanged

\* lenbuf.WriteTo(t.writer): the write succeeds (ok) or fails; after a
\* failure the sink takes no more bytes, and Send returns with the error,
\* releasing sendMu
MutexSendPrefix(g, ok) ==
    /\ mx.op # "none"
    /\ mx.pc[g] = "SendPrefix"
    /\ mx' = IF ok /\ ~mx.broken
             THEN [mx EXCEPT !.pc[g] = "SendPayload",
                             !.sink = Append(@, [k |-> mx.call[g].k,
                                                 part |-> "prefix",
                                                 bytes |-> WriteVarInt(Len(mx.call[g].buf))])]
             ELSE [MutexReturned(mx, g) EXCEPT !.sendMu = 0, !.broken = TRUE]
    /\ MutexUnchanged

\* buf.WriteTo(t.writer), return err and the deferred t.sendMu.Unlock()
MutexSendPayload(g, ok) ==
    /\ mx.op # "none"
    /\ mx.pc[g] = "SendPayload"
    /\ mx' = IF ok /\ ~mx.broken
             THEN [MutexReturned(mx, g) EXCEPT
                      !.sendMu = 0,
                      !.sink = Append(@, [k |-> mx.call[g].k, part |-> "payload",
                                          bytes |-> mx.call[g].buf])]
             ELSE [MutexReturned(mx, g) EXCEPT !.sendMu = 0, !.broken = TRUE]
    /\ MutexUnchanged

\* the goroutine g calls t.Recv(reg)
MutexCallRecv(g, reg) ==
    /\ mx.op # "none"
    /\ mx.pc[g] = "idle"
    /\ mx.src # <<>>
    /\ mx' = [mx EXCEPT !.pc[g] = "RecvLock", !.call[g] = [NoCall EXCEPT !.reg = reg]]
    /\ MutexUnchanged

\* t.recvMu.Lock()
MutexRecvLock(g) ==
    /\ mx.op # "none"
    /\ mx.pc[g] = "RecvLock"
    /\ RecvMuFree(mx)
    /\ mx' = [mx EXCEPT !.recvMu = g, !.pc[g] = "RecvPrefix"]
    /\ MutexUnchanged

\* the rest of t.Recv(reg) behind the length nx of the frame, as Recv of
\* the registry-dispatching transport, with the return and the deferred
\* t.recvMu.Unlock()
MutexRecvRest(g, nx) ==
    \E dl \in { RecvDeclaredLen(mx.cfg, nx.wire, nx.remaining, 0, "nil") } :
    \E z \in { payloadReset(mx.pReader, dl.wire, dl.remaining, dl.remaining, 0, "nil") } :
    \E id \in { payloadReadVarInt(z.r) } :
    \E d \in { Decode(RegistryBuild(mx.call[g].reg, id.v), id.r) } :
    \E s \in { RecvSkip(z.wire, z.remaining, "nil") } :
    \E t \in { RegistryRecv(mx, mx.call[g].reg, nx, dl, z, id, d, s) } :
       mx' = [MutexReturned(t, g) EXCEPT !.recvMu = 0]

\* the length prefix is read from the source; an error or a length over
\* MaxPacketLen is returned at once
MutexRecvPrefix(g) ==
    /\ mx.op # "none"
    /\ mx.pc[g] = "RecvPrefix"
    /\ \E nx \in { MutexNext(mx) } :
          IF nx.err # "nil" \/ nx.length > mx.cfg.MaxPacketLen
          THEN MutexRecvRest(g, nx)
          ELSE mx' = [mx EXCEPT !.pc[g] = "RecvBody", !.call[g].nx = nx,
                                !.src = nx.wire, !.remaining = nx.remaining]
    /\ MutexUnchanged

\* the frame is read into the payload reader, the packet is looked up and
\* decoded
MutexRecvBody(g) ==
    /\ mx.op # "none"
    /\ mx.pc[g] = "RecvBody"
    /\ MutexRecvRest(g, mx.call[g].nx)
    /\ MutexUnchanged

NextMutex ==
    \/ MutexNew
    \/ \E g \in Senders : \E p \in MutexPackets : MutexCallSend(g, p)
    \/ \E g \in Senders : MutexSendLock(g)
    \/ \E g \in Senders : \E ok \in BOOLEAN : MutexSendPrefix(g, ok)
    \/ \E g \in Senders : \E ok \in BOOLEAN : MutexSendPayload(g, ok)
    \/ \E g \in Receivers : MutexCallRecv(g, StatusServerboundRegistry)
    \/ \E g \in Receivers : MutexRecvLock(g)
    \/ \E g \in Receivers : MutexRecvPrefix(g)
    \/ \E g \in Receivers : MutexRecvBody(g)

SpecMutex == Init /\ [][NextMutex]_vars

(***************************************************************************)
(* Vocabulary of the concurrency claim.                                    *)
(***************************************************************************)
\* the transport has been constructed
MutexInUse == mx.op # "none"

\* a goroutine is between the Lock and the Unlock of sendMu
InSend(g) == mx.pc[g] \in {"SendPrefix", "SendPayload"}

\* a goroutine is between the Lock and the Unlock of recvMu
InRecv(g) == mx.pc[g] \in {"RecvPrefix", "RecvBody"}

\* the sink holds whole frames and nothing else: every length prefix is the
\* length of the payload written right behind it
RECURSIVE WholeFrames(_)
WholeFrames(bytes) ==
    \/ bytes = <<>>
    \/ LET r == ReadVarInt(bytes)
       IN  /\ r.err = "nil" /\ r.v >= 0 /\ Len(bytes) >= r.n + r.v
           /\ WholeFrames(Drop(bytes, r.n + r.v))

\* the last write to the sink is a length prefix whose payload is not
\* written yet: its Send is about to write it, or the sink has failed
PrefixPending ==
    /\ mx.sink # <<>>
    /\ mx.sink[Len(mx.sink)].part = "prefix"
    /\ \/ mx.broken
       \/ \E g \in Senders :
             mx.pc[g] = "SendPayload" /\ mx.call[g].k = mx.sink[Len(mx.sink)].k

\* the writes to the sink without a pending prefix
SinkSettled == IF PrefixPending THEN SubSeq(mx.sink, 1, Len(mx.sink) - 1) ELSE mx.sink

\* every length prefix written is followed at once by the payload of the
\* same Send, and the bytes on the sink are whole frames
FramesApart ==
    /\ \A i \in 1..Len(SinkSettled) :
          IF i % 2 = 1
          THEN /\ SinkSettled[i].part = "prefix"
               /\ i < Len(SinkSettled)
               /\ SinkSettled[i + 1].part = "payload"
               /\ SinkSettled[i + 1].k = SinkSettled[i].k
          ELSE SinkSettled[i].part = "payload"
    /\ WholeFrames(ConcatBytes(SinkSettled))

\* a Send that waits for sendMu while no other Send holds it can go on,
\* whatever Recv is doing
SendNotHeldUp ==
    \A g \in Senders :
        (mx.pc[g] = "SendLock" /\ \A h \in Senders : ~InSend(h)) =>
            ENABLED MutexSendLock(g)

C35_WitnessTwoFrames ==
    /\ MutexInUse
    /\ Len(mx.sink) = 4
    /\ mx.sink[1].k = 2 /\ mx.sink[3].k = 1
    /\ ~mx.broken
    /\ ConcatBytes(mx.sink) = << 1, 0, 3, 0, 1, 7 >>

\* a Send took sendMu while no Recv was in progress
C35_WitnessAlone ==
    /\ MutexInUse
    /\ mx.recvMu = 0 /\ mx.sendMu = 2 /\ ~mx.overlapped

=============================================================================
